---- MODULE Spec2Model ----
(***************************************************************************)
(* A model of osv-audit: the fix-suggestion engine (suggestFixes), the     *)
(* manifest parsers (parseDependencies) and the tool-call handler of the   *)
(* server (createServer).                                                  *)
(*                                                                         *)
(* JavaScript strings that the code takes apart (versions, aliases, lines  *)
(* of a manifest) are sequences of one-character strings; strings that the *)
(* code only copies or compares whole (names, ids, labels) are TLA+        *)
(* strings.  null is NULL, undefined is UNDEF.  An object that may lack a  *)
(* field carries the set `missing` of the fields it lacks.                 *)
(***************************************************************************)
EXTENDS Integers, Sequences, FiniteSets, TLC

VARIABLES call, result, invoked

\* The session-based HTTP transport: the shared map of sessions in insertion
\* order, the /mcp requests, the transports of the sessions, the call of stop()
\* and the HTTP server.
VARIABLES sessions, requests, transports, stopping, httpServer

transportVars == <<sessions, requests, transports, stopping, httpServer>>

vars == <<call, result, invoked, sessions, requests, transports, stopping, httpServer>>

\* ------------------------------------------------------------------ values

NULL == <<"null">>
UNDEF == <<"undefined">>

Has(obj, field) == field \notin obj.missing

\* JavaScript truthiness of a value that is a string, null or undefined.
Truthy(s) == s # NULL /\ s # UNDEF /\ s # <<>>

Drop(s, n) == SubSeq(s, n + 1, Len(s))

Take(s, n) == SubSeq(s, 1, n)

SeqsUpTo(S, n) == UNION {[1..k -> S] : k \in 0..n}

Range(s) == {s[i] : i \in 1..Len(s)}

\* [...new Set(xs)]: the first occurrence of each element, in order.
RECURSIVE Dedup(_)
Dedup(xs) ==
  IF xs = <<>> THEN <<>>
  ELSE LET front == Dedup(Take(xs, Len(xs) - 1))
           last == xs[Len(xs)]
       IN IF last \in Range(front) THEN front ELSE Append(front, last)

RECURSIVE Flatten(_)
Flatten(xss) == IF xss = <<>> THEN <<>> ELSE Head(xss) \o Flatten(Tail(xss))

RECURSIVE SelectSeqBy(_, _)
SelectSeqBy(xs, S) ==
  IF xs = <<>> THEN <<>>
  ELSE (IF Head(xs) \in S THEN <<Head(xs)>> ELSE <<>>) \o SelectSeqBy(Tail(xs), S)

\* ------------------------------------------------------- version comparison

DigitChars == {"0", "1", "2", "3", "4", "5", "6", "7", "8", "9"}

DigitVal(c) ==
  CASE c = "0" -> 0 [] c = "1" -> 1 [] c = "2" -> 2 [] c = "3" -> 3 [] c = "4" -> 4
    [] c = "5" -> 5 [] c = "6" -> 6 [] c = "7" -> 7 [] c = "8" -> 8 [] c = "9" -> 9

\* Length of the longest prefix of s made of digits: what a greedy \d+ takes.
RECURSIVE DigitRun(_)
DigitRun(s) ==
  IF s # <<>> /\ Head(s) \in DigitChars THEN 1 + DigitRun(Tail(s)) ELSE 0

\* parseInt(digits, 10)
RECURSIVE ParseInt(_)
ParseInt(ds) ==
  IF ds = <<>> THEN 0 ELSE 10 * ParseInt(Take(ds, Len(ds) - 1)) + DigitVal(ds[Len(ds)])

\* Primary collation weight of a character under String.prototype.localeCompare
\* (root collation): punctuation sorts before digits, digits before letters,
\* letters alphabetically, an upper-case letter at the place of its lower-case
\* form.  Only the characters the model uses are listed.
CollationWeight(c) ==
  CASE c = "-" -> 1 [] c = "." -> 2
    [] c \in DigitChars -> 10 + DigitVal(c)
    [] c = "a" -> 30 [] c = "B" -> 31 [] c = "k" -> 32 [] c = "n" -> 33 [] c = "o" -> 34
    [] c = "u" -> 35 [] c = "v" -> 36 [] c = "w" -> 37

\* a.localeCompare(b): -1, 0 or 1.
RECURSIVE localeCompare(_, _)
localeCompare(a, b) ==
  IF a = <<>> /\ b = <<>> THEN 0
  ELSE IF a = <<>> THEN -1
  ELSE IF b = <<>> THEN 1
  ELSE IF CollationWeight(Head(a)) < CollationWeight(Head(b)) THEN -1
  ELSE IF CollationWeight(Head(a)) > CollationWeight(Head(b)) THEN 1
  ELSE localeCompare(Tail(a), Tail(b))

NoParse ==
  [ok |-> FALSE, major |-> 0, minor |-> 0, patch |-> 0, prerelease |-> NULL,
   original |-> <<>>]

\* (?:\.(\d+))? applied at the head of r: the number of characters it takes when
\* it takes part in the match (a dot and a greedy digit run), 0 when it cannot.
DotDigits(r) ==
  IF Len(r) >= 2 /\ r[1] = "." /\ r[2] \in DigitChars THEN 1 + DigitRun(Tail(r)) ELSE 0

\* (?:[-.](.+))?$ applied to r: whether the rest of the string is accepted.
\* `.` matches every character but a line terminator.
TailOk(r) ==
  \/ r = <<>>
  \/ Len(r) >= 2 /\ r[1] \in {"-", "."} /\ \A i \in 2..Len(r) : r[i] # "\n"

TailPrerelease(r) == IF r = <<>> THEN NULL ELSE Tail(r)

\* The match of /^(\d+)(?:\.(\d+))?(?:\.(\d+))?(?:[-.](.+))?$/ against `cleaned`,
\* the alternatives tried in the order of the backtracking matcher: each optional
\* group first takes part, then is skipped.  (With the second group skipped the
\* third would take the same text and leave the same rest as the second alone,
\* so that alternative never succeeds where the one before it failed.)
parseVersion(version) ==
  LET cleaned == IF version # <<>> /\ Head(version) = "v" THEN Tail(version) ELSE version
      n1 == DigitRun(cleaned)
      r1 == Drop(cleaned, n1)
      m == DotDigits(r1)
      r2 == Drop(r1, m)
      p == DotDigits(r2)
      r3 == Drop(r2, p)
      Parsed(minor, patch, pre) ==
        [ok |-> TRUE, major |-> ParseInt(Take(cleaned, n1)), minor |-> minor,
         patch |-> patch, prerelease |-> pre, original |-> version]
  IN IF n1 = 0 THEN NoParse
     ELSE IF m > 0 /\ p > 0 /\ TailOk(r3)
       THEN Parsed(ParseInt(SubSeq(r1, 2, m)), ParseInt(SubSeq(r2, 2, p)), TailPrerelease(r3))
     ELSE IF m > 0 /\ TailOk(r2)
       THEN Parsed(ParseInt(SubSeq(r1, 2, m)), 0, TailPrerelease(r2))
     ELSE IF TailOk(r1)
       THEN Parsed(0, 0, TailPrerelease(r1))
     ELSE NoParse

\* A mutant: two prerelease tags always compare as greater.
compareVersionsTagsGreater(a, b) ==
  LET parsedA == parseVersion(a)
      parsedB == parseVersion(b)
  IN IF ~parsedA.ok \/ ~parsedB.ok THEN localeCompare(a, b)
     ELSE IF parsedA.major # parsedB.major THEN parsedA.major - parsedB.major
     ELSE IF parsedA.minor # parsedB.minor THEN parsedA.minor - parsedB.minor
     ELSE IF parsedA.patch # parsedB.patch THEN parsedA.patch - parsedB.patch
     ELSE IF Truthy(parsedA.prerelease) /\ ~Truthy(parsedB.prerelease) THEN -1
     ELSE IF ~Truthy(parsedA.prerelease) /\ Truthy(parsedB.prerelease) THEN 1
     ELSE IF Truthy(parsedA.prerelease) /\ Truthy(parsedB.prerelease)
       THEN 1
     ELSE 0

\* A mutant: a prerelease sorts above its release.
compareVersionsTagAbove(a, b) ==
  LET parsedA == parseVersion(a)
      parsedB == parseVersion(b)
  IN IF ~parsedA.ok \/ ~parsedB.ok THEN localeCompare(a, b)
     ELSE IF parsedA.major # parsedB.major THEN parsedA.major - parsedB.major
     ELSE IF parsedA.minor # parsedB.minor THEN parsedA.minor - parsedB.minor
     ELSE IF parsedA.patch # parsedB.patch THEN parsedA.patch - parsedB.patch
     ELSE IF Truthy(parsedA.prerelease) /\ ~Truthy(parsedB.prerelease) THEN 1
     ELSE IF ~Truthy(parsedA.prerelease) /\ Truthy(parsedB.prerelease) THEN -1
     ELSE IF Truthy(parsedA.prerelease) /\ Truthy(parsedB.prerelease)
       THEN localeCompare(parsedA.prerelease, parsedB.prerelease)
     ELSE 0

\* Mutant: a version with a prerelease tag is compared as a string.
compareVersionsTagsAsText(a, b) ==
  LET parsedA == parseVersion(a)
      parsedB == parseVersion(b)
  IN IF ~parsedA.ok \/ ~parsedB.ok \/ Truthy(parsedA.prerelease) \/ Truthy(parsedB.prerelease)
       THEN localeCompare(a, b)
     ELSE IF parsedA.major # parsedB.major THEN parsedA.major - parsedB.major
     ELSE IF parsedA.minor # parsedB.minor THEN parsedA.minor - parsedB.minor
     ELSE IF parsedA.patch # parsedB.patch THEN parsedA.patch - parsedB.patch
     ELSE 0

compareVersions(a, b) ==
  LET parsedA == parseVersion(a)
      parsedB == parseVersion(b)
  IN IF ~parsedA.ok \/ ~parsedB.ok THEN localeCompare(a, b)
     ELSE IF parsedA.major # parsedB.major THEN parsedA.major - parsedB.major
     ELSE IF parsedA.minor # parsedB.minor THEN parsedA.minor - parsedB.minor
     ELSE IF parsedA.patch # parsedB.patch THEN parsedA.patch - parsedB.patch
     ELSE IF Truthy(parsedA.prerelease) /\ ~Truthy(parsedB.prerelease) THEN -1
     ELSE IF ~Truthy(parsedA.prerelease) /\ Truthy(parsedB.prerelease) THEN 1
     ELSE IF Truthy(parsedA.prerelease) /\ Truthy(parsedB.prerelease)
       THEN localeCompare(parsedA.prerelease, parsedB.prerelease)
     ELSE 0

\* ------------------------------------------------------------------ sorting

Sign(n) == IF n < 0 THEN -1 ELSE IF n > 0 THEN 1 ELSE 0

\* The comparator of a sort is given as the table c[i, j] of its results on the
\* elements at positions i and j of the array being sorted.

\* A consistent comparator in the sense of Array.prototype.sort: on the elements
\* being sorted it is a total preorder.
ConsistentOn(n, c) ==
  /\ \A i, j \in 1..n : Sign(c[i, j]) = 0 - Sign(c[j, i])
  /\ \A i, j, k \in 1..n : c[i, j] <= 0 /\ c[j, k] <= 0 => c[i, k] <= 0

\* The stable ascending order: the element at position i is preceded by those
\* that compare lower and by those that compare equal and stood before it.
StableSort(xs, c) ==
  LET n == Len(xs)
      Place(i) == 1 + Cardinality({j \in 1..n : c[j, i] < 0 \/ (c[j, i] = 0 /\ j < i)})
  IN [k \in 1..n |-> xs[CHOOSE i \in 1..n : Place(i) = k]]

Orders(xs) ==
  {[i \in 1..Len(xs) |-> xs[f[i]]] :
     f \in {g \in [1..Len(xs) -> 1..Len(xs)] : \A i, j \in 1..Len(xs) : g[i] = g[j] => i = j}}

\* Mutant: an unstable sort, which leaves elements that compare equal in any order.
SortOutcomesUnstable(xs, c) ==
  LET Sorted(p) == \A i, j \in 1..Len(xs) : i < j => c[p[i], p[j]] <= 0
      ps == Orders([i \in 1..Len(xs) |-> i])
  IN  {[k \in 1..Len(xs) |-> xs[p[k]]] : p \in {q \in ps : ~ConsistentOn(Len(xs), c) \/ Sorted(q)}}

\* xs.sort(comparator): the orders the call can leave.  With a consistent
\* comparator the sort is stable and the order is unique; otherwise the order is
\* implementation-defined and any permutation may result.
SortOutcomes(xs, c) ==
  IF ConsistentOn(Len(xs), c) THEN {StableSort(xs, c)} ELSE Orders(xs)

\* ------------------------------------------------------- priority calculation

\* String.prototype.toUpperCase on the labels the model uses.
toUpperCase(s) ==
  CASE s = "critical" -> "CRITICAL" [] s = "high" -> "HIGH" [] s = "bogus" -> "BOGUS"
    [] OTHER -> s

\* s?.toUpperCase() === level, s being the severity field of a vulnerability
\* (absent, null or a string).
SeverityIs(vuln, level) ==
  Has(vuln, "severity") /\ vuln.severity # "null" /\ toUpperCase(vuln.severity) = level

getPriorityFromSeverity(severity) ==
  CASE toUpperCase(severity) = "CRITICAL" -> "critical"
    [] toUpperCase(severity) = "HIGH" -> "high"
    [] toUpperCase(severity) = "MEDIUM" -> "medium"
    [] OTHER -> "low"

SeverityOrder == <<"CRITICAL", "HIGH", "MEDIUM", "LOW", "NONE">>

\* Mutant: the scan of the levels runs from the least severe.
getLowestSeverity(vulnerabilities) ==
  LET hits == {k \in 1..Len(SeverityOrder) :
                 \E i \in 1..Len(vulnerabilities) : SeverityIs(vulnerabilities[i], SeverityOrder[k])}
  IN IF hits = {} THEN "UNKNOWN"
     ELSE SeverityOrder[CHOOSE k \in hits : \A h \in hits : k >= h]

\* The first level of SeverityOrder that some vulnerability carries.
getHighestSeverity(vulnerabilities) ==
  LET hits == {k \in 1..Len(SeverityOrder) :
                 \E i \in 1..Len(vulnerabilities) : SeverityIs(vulnerabilities[i], SeverityOrder[k])}
  IN IF hits = {} THEN "UNKNOWN"
     ELSE SeverityOrder[CHOOSE k \in hits : \A h \in hits : k <= h]

\* ------------------------------------------------------- fix suggestion logic

CompareTable(xs) == [i \in 1..Len(xs), j \in 1..Len(xs) |-> compareVersions(xs[i], xs[j])]

\* Mutant: the scan accepts a fixed version that equals the current one.
ScanSortedNotLess(currentVersion, sortedVersions) ==
  LET currentParsed == parseVersion(currentVersion)
      hits == {i \in 1..Len(sortedVersions) :
                 ~currentParsed.ok \/ compareVersions(sortedVersions[i], currentVersion) >= 0}
  IN IF hits # {} THEN sortedVersions[CHOOSE i \in hits : \A h \in hits : i <= h]
     ELSE sortedVersions[Len(sortedVersions)]

\* Mutant: the scan compares with a current version that does not parse.
ScanSortedCompared(currentVersion, sortedVersions) ==
  LET hits == {i \in 1..Len(sortedVersions) :
                 compareVersions(sortedVersions[i], currentVersion) > 0}
  IN IF hits # {} THEN sortedVersions[CHOOSE i \in hits : \A h \in hits : i <= h]
     ELSE sortedVersions[Len(sortedVersions)]

\* The scan of findMinimumSafeVersion over the sorted fixed versions.
ScanSorted(currentVersion, sortedVersions) ==
  LET currentParsed == parseVersion(currentVersion)
      hits == {i \in 1..Len(sortedVersions) :
                 ~currentParsed.ok \/ compareVersions(sortedVersions[i], currentVersion) > 0}
  IN IF hits # {} THEN sortedVersions[CHOOSE i \in hits : \A h \in hits : i <= h]
     ELSE sortedVersions[Len(sortedVersions)]

\* The values findMinimumSafeVersion can return (one, unless the sort is handed
\* an inconsistent comparator).
findMinimumSafeVersion(currentVersion, fixedVersions) ==
  IF Len(fixedVersions) = 0 THEN {NULL}
  ELSE {ScanSorted(currentVersion, sorted) :
          sorted \in SortOutcomes(fixedVersions, CompareTable(fixedVersions))}

Unknown == <<"u", "n", "k", "n", "o", "w", "n">>

CvePrefix == <<"C", "V", "E", "-">>

startsWith(s, prefix) == Len(s) >= Len(prefix) /\ Take(s, Len(prefix)) = prefix

\* The action chosen for a suggested version (a string or null).
ActionFor(suggestedVersion) == IF Truthy(suggestedVersion) THEN "upgrade" ELSE "review"

\* The notes of one suggestion.
NotesFor(currentVersion, suggestedVersion, vulnerabilities) ==
  LET currentParsed == parseVersion(currentVersion)
      suggestedParsed == parseVersion(suggestedVersion)
      aliases == Flatten([i \in 1..Len(vulnerabilities) |-> vulnerabilities[i].aliases])
      cves == SelectSeqBy(aliases, {a \in Range(aliases) : startsWith(a, CvePrefix)})
  IN (IF Truthy(suggestedVersion)
        THEN <<[text |-> "Upgrade from {0} to {1}", args |-> <<currentVersion, suggestedVersion>>]>>
             \o (IF currentParsed.ok /\ suggestedParsed.ok
                     /\ suggestedParsed.major > currentParsed.major
                   THEN <<[text |-> "Warning: This is a major version upgrade", args |-> <<>>]>>
                   ELSE <<>>)
        ELSE <<[text |-> "No fixed version available", args |-> <<>>]>>)
     \o (IF Len(cves) > 0 THEN <<[text |-> "Related CVEs: {...}", args |-> Dedup(cves)]>> ELSE <<>>)

\* Mutant: only an absent vulnerability list is skipped.
SkippedWhenAbsent(entry) == ~Has(entry, "vulnerabilities")

\* Whether the loop body of suggestFixes emits nothing for this entry.
Skipped(entry) == ~Has(entry, "vulnerabilities") \/ Len(entry.vulnerabilities) = 0

\* Whether the loop body of suggestFixes raises a TypeError on this entry:
\* spreading an absent fixed_versions, reading .version of an absent dependency,
\* or calling startsWith on the undefined that an absent aliases list leaves.
Throws(entry) ==
  /\ ~Skipped(entry)
  /\ \/ \E i \in 1..Len(entry.vulnerabilities) : ~Has(entry.vulnerabilities[i], "fixed_versions")
     \/ ~Has(entry, "dependency")
     \/ \E i \in 1..Len(entry.vulnerabilities) : ~Has(entry.vulnerabilities[i], "aliases")

\* The suggestion the loop body builds for an entry, given the version that
\* findMinimumSafeVersion returned.
Suggestion(entry, currentVersion, suggestedVersion) ==
  LET vulnerabilities == entry.vulnerabilities
      highestSeverity == getHighestSeverity(vulnerabilities)
      vulnIds == [i \in 1..Len(vulnerabilities) |-> vulnerabilities[i].id]
  IN [package |-> entry.dependency.name,
      ecosystem |-> entry.dependency.ecosystem,
      current_version |-> currentVersion,
      suggested_version |-> suggestedVersion,
      vulnerabilities_fixed |-> vulnIds,
      severity |-> highestSeverity,
      priority |-> getPriorityFromSeverity(highestSeverity),
      action |-> ActionFor(suggestedVersion),
      notes |-> NotesFor(currentVersion, suggestedVersion, vulnerabilities)]

\* The suggestions the loop body can build for an entry that is neither skipped
\* nor raises.
SuggestionsFor(entry) ==
  LET vulnerabilities == entry.vulnerabilities
      allFixedVersions == Flatten([i \in 1..Len(vulnerabilities) |-> vulnerabilities[i].fixed_versions])
      uniqueFixedVersions == Dedup(allFixedVersions)
      currentVersion == IF Has(entry.dependency, "version") /\ Truthy(entry.dependency.version)
                        THEN entry.dependency.version ELSE Unknown
  IN {Suggestion(entry, currentVersion, suggestedVersion) :
        suggestedVersion \in findMinimumSafeVersion(currentVersion, uniqueFixedVersions)}

\* The suggestions array after the loop, before the final sort.
RECURSIVE CollectSuggestions(_)
CollectSuggestions(entries) ==
  IF entries = <<>> THEN {<<>>}
  ELSE LET front == CollectSuggestions(Take(entries, Len(entries) - 1))
           last == entries[Len(entries)]
       IN IF Skipped(last) THEN front
          ELSE {Append(f, s) : f \in front, s \in SuggestionsFor(last)}

PriorityRank(priority) ==
  CASE priority = "critical" -> 0 [] priority = "high" -> 1 [] priority = "medium" -> 2
    [] priority = "low" -> 3

PriorityTable(suggestions) ==
  [i \in 1..Len(suggestions), j \in 1..Len(suggestions) |->
     PriorityRank(suggestions[i].priority) - PriorityRank(suggestions[j].priority)]

\* Mutant: the suggestions are left in the order of the loop.
LeftUnsorted(suggestions) == {suggestions}

\* suggestions.sort((a, b) => priorityOrder[a.priority] - priorityOrder[b.priority])
SortByPriority(suggestions) == SortOutcomes(suggestions, PriorityTable(suggestions))

Priorities == {"critical", "high", "medium", "low"}

\* byPriority after the loop: one increment per pushed suggestion.
CountByPriority(suggestions) ==
  [t \in Priorities |-> Cardinality({i \in 1..Len(suggestions) : suggestions[i].priority = t})]

\* ------------------------------------------------------------------ envelopes

createSuccessResponse(data, meta, now) ==
  [ok |-> TRUE, data |-> data,
   meta |-> [retrieved_at |-> now, warnings |-> meta.warnings, source |-> meta.source]]

\* A message is the sequence of the pieces its template joins; details is the
\* record of the properties given.
NoDetails == [key \in {} |-> <<>>]

createErrorResponse(code, message, details, now) ==
  [ok |-> FALSE, error |-> [code |-> code, message |-> message, details |-> details],
   meta |-> [retrieved_at |-> now]]

Return(value) == [kind |-> "return", value |-> value]

Throw(error) == [kind |-> "throw", error |-> error]

\* ---------------------------------------------------------------- suggestFixes

\* The outcomes of suggestFixes(input) called at time `now`: the envelope it
\* resolves to, or the rejection of its promise.
suggestFixes(input, now) ==
  IF input.vuln_results_type # "array"
    THEN {Return(createErrorResponse("INVALID_INPUT", <<"vuln_results must be an array">>,
                                NoDetails, now))}
  ELSE IF \E i \in 1..Len(input.vuln_results) : Throws(input.vuln_results[i])
    THEN {Throw("TypeError")}
  ELSE UNION {
         {Return(createSuccessResponse(
                   [suggestions |-> sorted,
                    summary |-> [total |-> Len(sorted),
                                 by_priority |-> CountByPriority(collected)]],
                   [warnings |-> IF Len(sorted) = 0
                                   THEN <<"No vulnerabilities found - no fix suggestions needed">>
                                   ELSE <<>>,
                    source |-> UNDEF],
                   now)) : sorted \in SortByPriority(collected)} :
         collected \in CollectSuggestions(input.vuln_results)}

\* ------------------------------------------------------------ tool-call handler

\* SuggestFixesInputSchema.parse(args) succeeds: vuln_results is an array of
\* objects with a dependency and a vulnerabilities array whose members carry
\* their severity (a string or null), fixed_versions and aliases.
SuggestFixesInputValid(args) ==
  /\ args.vuln_results_type = "array"
  /\ \A i \in 1..Len(args.vuln_results) :
       LET entry == args.vuln_results[i]
       IN /\ entry.missing = {}
          /\ \A k \in 1..Len(entry.vulnerabilities) : entry.vulnerabilities[k].missing = {}

\* JSON.stringify(result, null, 2) as the client reads it back: a property whose
\* value is undefined is left out.
JSONStringify(envelope) ==
  IF envelope.ok /\ envelope.meta.source = UNDEF
    THEN [envelope EXCEPT !.meta = [retrieved_at |-> envelope.meta.retrieved_at,
                                    warnings |-> envelope.meta.warnings]]
    ELSE envelope

ToolResult(envelope, isError) == [content |-> envelope, isError |-> isError]

\* The envelope the catch block of the handler builds.
InternalError(now) ==
  ToolResult(createErrorResponse("INTERNAL_ERROR", <<"error.message">>, NoDetails, now), TRUE)

\* case 'suggest_fixes' of the CallToolRequestSchema handler.
CallSuggestFixes(args, now) ==
  IF ~SuggestFixesInputValid(args) THEN {InternalError(now)}
  ELSE {IF r.kind = "throw" THEN InternalError(now)
        ELSE ToolResult(JSONStringify(r.value), FALSE) : r \in suggestFixes(args, now)}

\* ------------------------------------------------------------ text utilities

\* The white space that trim() and \s know, as far as the model's texts use it.
WhitespaceChars == {" ", "\t", "\r", "\n"}

LowerChars ==
  <<"a", "b", "c", "d", "e", "f", "g", "h", "i", "j", "k", "l", "m",
    "n", "o", "p", "q", "r", "s", "t", "u", "v", "w", "x", "y", "z">>

UpperChars ==
  <<"A", "B", "C", "D", "E", "F", "G", "H", "I", "J", "K", "L", "M",
    "N", "O", "P", "Q", "R", "S", "T", "U", "V", "W", "X", "Y", "Z">>

\* [a-zA-Z0-9_-]
NameChars == Range(LowerChars) \cup Range(UpperChars) \cup DigitChars \cup {"_", "-"}

toLowerCaseChar(c) ==
  IF c \in Range(UpperChars)
    THEN LowerChars[CHOOSE i \in 1..Len(UpperChars) : UpperChars[i] = c]
    ELSE c

\* String.prototype.toLowerCase
toLowerCase(s) == [i \in 1..Len(s) |-> toLowerCaseChar(s[i])]

\* Length of the longest prefix of s whose characters are in S.
RECURSIVE PrefixIn(_, _)
PrefixIn(s, S) == IF s # <<>> /\ Head(s) \in S THEN 1 + PrefixIn(Tail(s), S) ELSE 0

\* Length of the longest prefix of s whose characters are not in S.
RECURSIVE PrefixNotIn(_, _)
PrefixNotIn(s, S) == IF s # <<>> /\ Head(s) \notin S THEN 1 + PrefixNotIn(Tail(s), S) ELSE 0

Reverse(s) == [i \in 1..Len(s) |-> s[Len(s) + 1 - i]]

trimStart(s) == Drop(s, PrefixIn(s, WhitespaceChars))

trimEnd(s) == Take(s, Len(s) - PrefixIn(Reverse(s), WhitespaceChars))

\* String.prototype.trim
trim(s) == trimEnd(trimStart(s))

\* Position of the first occurrence of c in s, 0 when there is none.
IndexOf(s, c) ==
  IF c \in Range(s) THEN CHOOSE i \in 1..Len(s) : s[i] = c /\ \A j \in 1..(i - 1) : s[j] # c
  ELSE 0

\* text.trim() === '' for a text given as its lines.
\* A mutant: only the empty text is refused.
EmptyText(lines) == lines = << <<>> >>

\* text.trim() === '' for the lines of text.
BlankText(lines) == \A i \in 1..Len(lines) : trim(lines[i]) = <<>>

\* ---------------------------------------------------------------- manifest types

ManifestTypes ==
  {"package-lock", "pnpm-lock", "yarn-lock", "requirements", "poetry-lock", "go-mod",
   "cargo-lock"}

\* A mutant: go-mod mapped to npm.
ECOSYSTEM_MAP_GoAsNpm ==
  [m \in ManifestTypes |->
     CASE m \in {"package-lock", "pnpm-lock", "yarn-lock", "go-mod"} -> "npm"
       [] m \in {"requirements", "poetry-lock"} -> "PyPI"
       [] m = "cargo-lock" -> "crates.io"]

ECOSYSTEM_MAP ==
  [m \in ManifestTypes |->
     CASE m \in {"package-lock", "pnpm-lock", "yarn-lock"} -> "npm"
       [] m \in {"requirements", "poetry-lock"} -> "PyPI"
       [] m = "go-mod" -> "Go"
       [] m = "cargo-lock" -> "crates.io"]

\* ---------------------------------------------------------- parseRequirements

DepOf(ecosystem, name, version) == [ecosystem |-> ecosystem, name |-> name, version |-> version]

\* trimmed.replace(/\[.*?\]/g, ''): every "[" up to the nearest "]" is removed.
RECURSIVE RemoveExtras(_)
RemoveExtras(s) ==
  IF s = <<>> THEN <<>>
  ELSE IF Head(s) = "[" /\ "]" \in Range(Tail(s))
    THEN RemoveExtras(Drop(s, 1 + IndexOf(Tail(s), "]")))
  ELSE <<Head(s)>> \o RemoveExtras(Tail(s))

\* (==|>=|<=|~=|!=|>|<), the alternatives in the order the matcher tries them.
RequirementOperators ==
  <<<<"=", "=">>, <<">", "=">>, <<"<", "=">>, <<"~", "=">>, <<"!", "=">>, <<">">>, <<"<">>>>

\* [^\s;#]
VersionStop == WhitespaceChars \cup {";", "#"}

\* The version that /^([a-zA-Z0-9_-]+)\s*(==|>=|<=|~=|!=|>|<)\s*([^\s;#]+)/ captures
\* after the name and the white space behind it, <<>> when no alternative of the
\* operator group leads to a match.
RequirementVersion(rest) ==
  LET Tries(k) ==
        LET op == RequirementOperators[k]
            after == trimStart(Drop(rest, Len(op)))
        IN IF startsWith(rest, op) THEN Take(after, PrefixNotIn(after, VersionStop)) ELSE <<>>
      hits == {k \in 1..Len(RequirementOperators) : Tries(k) # <<>>}
  IN IF hits = {} THEN <<>> ELSE Tries(CHOOSE k \in hits : \A h \in hits : k <= h)

\* The dependencies (none or one) that the loop body of parseRequirements pushes
\* for a line.
RequirementLine(line) ==
  LET trimmed == trim(line)
      withoutExtras == RemoveExtras(trimmed)
      n == PrefixIn(withoutExtras, NameChars)
      name == Take(withoutExtras, n)
      version == RequirementVersion(trimStart(Drop(withoutExtras, n)))
  IN IF trimmed = <<>> \/ Head(trimmed) = "#" \/ Head(trimmed) = "-" THEN <<>>
     ELSE IF n > 0 /\ version # <<>> THEN <<DepOf(ECOSYSTEM_MAP["requirements"], toLowerCase(name), version)>>
     ELSE IF n > 0 THEN <<DepOf(ECOSYSTEM_MAP["requirements"], toLowerCase(name), <<"*">>)>>
     ELSE <<>>

parseRequirements(lines) == Flatten([i \in 1..Len(lines) |-> RequirementLine(lines[i])])

\* ------------------------------------------------------------------ parseGoMod

StripLeadingV(s) == IF s # <<>> /\ Head(s) = "v" THEN Tail(s) ELSE s

\* The captures of /^([^\s]+)\s+v?([^\s]+)/ on s: the name and the version token
\* (the optional v is left to the token when nothing else would remain for it);
\* ok is FALSE when there is no match.
NameVersion(s) ==
  LET n == PrefixNotIn(s, WhitespaceChars)
      afterName == Drop(s, n)
      w == PrefixIn(afterName, WhitespaceChars)
      rest == Drop(afterName, w)
      tokenLen == PrefixNotIn(rest, WhitespaceChars)
      token == Take(rest, tokenLen)
  IN IF n = 0 \/ w = 0 \/ tokenLen = 0 THEN [ok |-> FALSE, name |-> <<>>, version |-> <<>>]
     ELSE [ok |-> TRUE, name |-> Take(s, n),
           version |-> IF Head(token) = "v" /\ tokenLen > 1 THEN Tail(token) ELSE token]

RequireWord == <<"r", "e", "q", "u", "i", "r", "e">>

RequireOpen == <<"r", "e", "q", "u", "i", "r", "e", " ", "(">>

\* match[2].replace(/\s*\/\/.*$/, ''): the token is cut at its first "//".
RECURSIVE CutLineComment(_)
CutLineComment(s) ==
  IF Len(s) < 2 THEN s
  ELSE IF s[1] = "/" /\ s[2] = "/" THEN <<>>
  ELSE <<Head(s)>> \o CutLineComment(Tail(s))

\* The loop of parseGoMod from a line on, inRequireBlock being the state it
\* carries.
RECURSIVE GoModLines(_, _)
GoModLines(lines, inRequireBlock) ==
  IF lines = <<>> THEN <<>>
  ELSE
    LET trimmed == trim(Head(lines))
        single == NameVersion(trimStart(Drop(trimmed, Len(RequireWord))))
        inBlock == NameVersion(trimmed)
    IN IF trimmed = <<>> \/ startsWith(trimmed, <<"/", "/">>)
         THEN GoModLines(Tail(lines), inRequireBlock)
       ELSE IF trimmed = RequireOpen THEN GoModLines(Tail(lines), TRUE)
       ELSE IF trimmed = <<")">> THEN GoModLines(Tail(lines), FALSE)
       ELSE IF startsWith(trimmed, RequireWord \o <<" ">>)
         THEN (IF single.ok /\ single.version # <<>>
                 THEN <<DepOf(ECOSYSTEM_MAP["go-mod"], single.name, StripLeadingV(single.version))>> ELSE <<>>)
              \o GoModLines(Tail(lines), inRequireBlock)
       ELSE IF inRequireBlock
         THEN (IF inBlock.ok
                 THEN <<DepOf(ECOSYSTEM_MAP["go-mod"], inBlock.name, StripLeadingV(CutLineComment(inBlock.version)))>>
                 ELSE <<>>)
              \o GoModLines(Tail(lines), inRequireBlock)
       ELSE GoModLines(Tail(lines), inRequireBlock)

parseGoMod(lines) == GoModLines(lines, FALSE)

\* --------------------------------------------------------------- parseYarnLock

QuoteChars == {"\"", "'"}

\* cleanLine.split(/,\s*/)
RECURSIVE SplitCommas(_)
SplitCommas(s) ==
  IF "," \notin Range(s) THEN <<s>>
  ELSE <<Take(s, IndexOf(s, ",") - 1)>> \o SplitCommas(trimStart(Drop(s, IndexOf(s, ","))))

\* part.replace(/^["']|["']$/g, ''): a quote at the start and a quote at the end
\* are removed.
StripQuotes(s) ==
  LET lead == s # <<>> /\ Head(s) \in QuoteChars
      trail == s # <<>> /\ s[Len(s)] \in QuoteChars /\ (~lead \/ Len(s) >= 2)
  IN SubSeq(s, IF lead THEN 2 ELSE 1, IF trail THEN Len(s) - 1 ELSE Len(s))

\* The capture of /^(@?[^@]+)@/ on a declaration, <<>> when there is no match.
DeclaredName(clean) ==
  LET k == IF clean # <<>> /\ Head(clean) = "@" THEN 1 ELSE 0
      run == PrefixNotIn(Drop(clean, k), {"@"})
  IN IF run >= 1 /\ Len(clean) > k + run THEN Take(clean, k + run) ELSE <<>>

\* The names that a declaration line leaves in currentPackages.
DeclaredNames(line) ==
  LET cleanLine == trim(IF line # <<>> /\ line[Len(line)] = ":"
                          THEN Take(line, Len(line) - 1) ELSE line)
      parts == SplitCommas(cleanLine)
      names == [i \in 1..Len(parts) |-> DeclaredName(trim(StripQuotes(parts[i])))]
  IN SelectSeqBy(names, Range(names) \ {<<>>})

VersionWord == <<"v", "e", "r", "s", "i", "o", "n">>

\* The capture of /^\s+version\s+["']?([^"'\s]+)["']?/ on a line, <<>> when there
\* is no match.
VersionLine(line) ==
  LET w1 == PrefixIn(line, WhitespaceChars)
      r1 == Drop(line, w1)
      r2 == Drop(r1, Len(VersionWord))
      w2 == PrefixIn(r2, WhitespaceChars)
      r3 == Drop(r2, w2)
      r4 == IF r3 # <<>> /\ Head(r3) \in QuoteChars THEN Tail(r3) ELSE r3
  IN IF w1 >= 1 /\ startsWith(r1, VersionWord) /\ w2 >= 1
       THEN Take(r4, PrefixNotIn(r4, QuoteChars \cup WhitespaceChars))
       ELSE <<>>

\* The flush of a block: one dependency per pending name whose name@version key
\* was not seen before.  st is [deps, seen, currentPackages, currentVersion].
RECURSIVE PushBlock(_, _, _)
PushBlock(st, pkgs, version) ==
  IF pkgs = <<>> THEN st
  ELSE LET key == Head(pkgs) \o <<"@">> \o version
       IN IF key \in st.seen THEN PushBlock(st, Tail(pkgs), version)
          ELSE PushBlock([st EXCEPT !.seen = @ \cup {key},
                                    !.deps = Append(@, DepOf(ECOSYSTEM_MAP["yarn-lock"],
                                                             Head(pkgs), version))],
                         Tail(pkgs), version)

\* A mutant: every pending name is pushed, seen before or not.
FlushBlockAll(st) ==
  IF Len(st.currentPackages) > 0 /\ Truthy(st.currentVersion)
    THEN [st EXCEPT !.deps = @ \o [i \in 1..Len(st.currentPackages) |->
                                     DepOf(ECOSYSTEM_MAP["yarn-lock"], st.currentPackages[i],
                                           st.currentVersion)]]
    ELSE st

FlushBlock(st) ==
  IF Len(st.currentPackages) > 0 /\ Truthy(st.currentVersion)
    THEN PushBlock(st, st.currentPackages, st.currentVersion)
    ELSE st

\* One turn of the loop of parseYarnLock.
YarnStep(st, line) ==
  IF (line # <<>> /\ Head(line) = "#") \/ trim(line) = <<>> THEN st
  ELSE IF Head(line) \notin {" ", "\t"}
    THEN [FlushBlock(st) EXCEPT !.currentPackages = DeclaredNames(line),
                                !.currentVersion = NULL]
  ELSE IF VersionLine(line) # <<>>
    THEN [st EXCEPT !.currentVersion = VersionLine(line)]
  ELSE st

RECURSIVE YarnLines(_, _)
YarnLines(st, lines) ==
  IF lines = <<>> THEN st ELSE YarnLines(YarnStep(st, Head(lines)), Tail(lines))

\* A mutant: the block pending at the end of the text is dropped.
parseYarnLockUnflushed(lines) ==
  YarnLines([deps |-> <<>>, seen |-> {}, currentPackages |-> <<>>,
             currentVersion |-> NULL], lines).deps

parseYarnLock(lines) ==
  FlushBlock(YarnLines([deps |-> <<>>, seen |-> {}, currentPackages |-> <<>>,
                        currentVersion |-> NULL], lines)).deps

\* ------------------------------------------------------------ decoded documents

\* A value that JSON.parse, yaml.load or parseTOML returns: its type t, the
\* characters s of a string or a number, and the members kids of an object or
\* an array, in order, each a key k and a value v.
JV(t, s, kids) == [t |-> t, s |-> s, kids |-> kids]

JNull == JV("null", <<>>, <<>>)

JUndefined == JV("undefined", <<>>, <<>>)

JString(s) == JV("string", s, <<>>)

JNumber(s) == JV("number", s, <<>>)

JObject(kids) == JV("object", <<>>, kids)

P(k, v) == [k |-> k, v |-> v]

IndexKey(i) == <<(<<"0", "1", "2", "3", "4", "5", "6", "7", "8", "9">>)[i + 1]>>

JArray(items) == JV("array", <<>>, [i \in 1..Len(items) |-> P(IndexKey(i - 1), items[i])])

\* The decoder throws on the text.
DecodeError == JV("error", <<>>, <<>>)

\* Reading a property of v throws a TypeError.
Nullish(v) == v.t \in {"null", "undefined"}

\* v[key] for a key that is no index and no built-in property.
Get(v, key) ==
  IF v.t = "object" /\ \E i \in 1..Len(v.kids) : v.kids[i].k = key
    THEN v.kids[CHOOSE i \in 1..Len(v.kids) : v.kids[i].k = key].v
    ELSE JUndefined

\* v?.[key]
GetOptional(v, key) == IF Nullish(v) THEN JUndefined ELSE Get(v, key)

JTruthy(v) ==
  CASE v.t \in {"null", "undefined", "false"} -> FALSE
    [] v.t = "string" -> v.s # <<>>
    [] v.t = "number" -> v.s # <<"0">>
    [] OTHER -> TRUE

\* Object.entries(v) of a truthy v.
ObjectEntries(v) ==
  CASE v.t \in {"object", "array"} -> v.kids
    [] v.t = "string" -> [i \in 1..Len(v.s) |-> P(IndexKey(i - 1), JString(<<v.s[i]>>))]
    [] OTHER -> <<>>

\* The value a parser copies into a field of a Dependency: the characters of
\* a string, or the type of a value that is no string.
Copied(v) == IF v.t = "string" THEN v.s ELSE <<v.t>>

\* What a parser does: it returns deps, or throws error.
Parsed(deps) == [error |-> "none", deps |-> deps]

Thrown(error) == [error |-> error, deps |-> <<>>]

\* ------------------------------------------------------------ parsePackageLock

NodeModules == <<"n", "o", "d", "e", "_", "m", "o", "d", "u", "l", "e", "s", "/">>

\* .replace(/\/node_modules\//g, '/')
RECURSIVE Unnest(_)
Unnest(s) ==
  IF s = <<>> THEN <<>>
  ELSE IF startsWith(s, <<"/">> \o NodeModules)
    THEN <<"/">> \o Unnest(Drop(s, Len(NodeModules) + 1))
    ELSE <<Head(s)>> \o Unnest(Tail(s))

PackageName(path) ==
  Unnest(IF startsWith(path, NodeModules) THEN Drop(path, Len(NodeModules)) ELSE path)

\* One turn of the loop over data.packages: "throw", "skip" or "push".
PackageTurn(e) ==
  IF e.k = <<>> \/ PackageName(e.k) = <<>> THEN "skip"
  ELSE IF Nullish(e.v) THEN "throw"
  ELSE IF JTruthy(Get(e.v, <<"v", "e", "r", "s", "i", "o", "n">>)) THEN "push"
  ELSE "skip"

PackagesLoop(entries) ==
  IF \E i \in 1..Len(entries) : PackageTurn(entries[i]) = "throw" THEN Thrown("TypeError")
  ELSE Parsed(Flatten([i \in 1..Len(entries) |->
                 IF PackageTurn(entries[i]) = "push"
                   THEN <<DepOf(ECOSYSTEM_MAP["package-lock"], PackageName(entries[i].k),
                                Copied(Get(entries[i].v, <<"v", "e", "r", "s", "i", "o", "n">>)))>>
                   ELSE <<>>]))

RECURSIVE extractDeps(_, _)
extractDeps(entries, prefix) ==
  IF entries = <<>> THEN Parsed(<<>>)
  ELSE LET name == Head(entries).k
           info == Head(entries).v
           fullName == IF prefix # <<>> THEN prefix \o <<"/">> \o name ELSE name
       IN IF Nullish(info) THEN Thrown("TypeError")
          ELSE LET own == IF JTruthy(Get(info, <<"v", "e", "r", "s", "i", "o", "n">>))
                            THEN <<DepOf(ECOSYSTEM_MAP["package-lock"], fullName,
                                         Copied(Get(info, <<"v", "e", "r", "s", "i", "o", "n">>)))>>
                            ELSE <<>>
                   nested == Get(info, <<"d", "e", "p", "e", "n", "d", "e", "n", "c", "i", "e", "s">>)
                   inner == IF JTruthy(nested)
                              THEN extractDeps(ObjectEntries(nested), fullName)
                              ELSE Parsed(<<>>)
                   rest == extractDeps(Tail(entries), prefix)
               IN IF inner.error # "none" THEN inner
                  ELSE IF rest.error # "none" THEN rest
                  ELSE Parsed(own \o inner.deps \o rest.deps)

parsePackageLock(text) ==
  LET data == text.decoded
  IN IF data.t = "error" THEN Thrown("SyntaxError")
     ELSE IF Nullish(data) THEN Thrown("TypeError")
     ELSE LET packages == Get(data, <<"p", "a", "c", "k", "a", "g", "e", "s">>)
              v2 == IF JTruthy(packages) THEN PackagesLoop(ObjectEntries(packages))
                    ELSE Parsed(<<>>)
              dependencies == Get(data, <<"d", "e", "p", "e", "n", "d", "e", "n", "c", "i", "e", "s">>)
          IN IF v2.error # "none" THEN v2
             ELSE IF JTruthy(dependencies) /\ Len(v2.deps) = 0
               THEN extractDeps(ObjectEntries(dependencies), <<>>)
             ELSE v2

\* --------------------------------------------------------------- parsePnpmLock

PathStops == {"@", "/"}

\* pkgPath.match(/^\/?(@?[^@/]+(?:\/[^@/]+)?)[@/](.+)$/): the name ends after its
\* second segment when a separator and a version follow that, and after its
\* first segment otherwise.
PnpmKey(pkgPath) ==
  LET r == IF pkgPath # <<>> /\ Head(pkgPath) = "/" THEN Tail(pkgPath) ELSE pkgPath
      k == IF r # <<>> /\ Head(r) = "@" THEN 1 ELSE 0
      n1 == PrefixNotIn(Drop(r, k), PathStops)
      a == k + n1
      n2 == IF Len(r) > a /\ r[a + 1] = "/" THEN PrefixNotIn(Drop(r, a + 1), PathStops) ELSE 0
      b == a + 1 + n2
  IN IF n1 >= 1 /\ n2 >= 1 /\ Len(r) > b + 1
       THEN [ok |-> TRUE, name |-> Take(r, b), version |-> Drop(r, b + 1)]
     ELSE IF n1 >= 1 /\ Len(r) > a + 1
       THEN [ok |-> TRUE, name |-> Take(r, a), version |-> Drop(r, a + 1)]
     ELSE [ok |-> FALSE, name |-> <<>>, version |-> <<>>]

PnpmPackages(entries) ==
  Flatten([i \in 1..Len(entries) |->
     IF PnpmKey(entries[i].k).ok
       THEN <<DepOf(ECOSYSTEM_MAP["pnpm-lock"], PnpmKey(entries[i].k).name,
                    PnpmKey(entries[i].k).version)>>
       ELSE <<>>])

\* typeof value === 'string' ? value : value.version
DirectVersion(value) == IF value.t = "string" THEN value ELSE Get(value, <<"v", "e", "r", "s", "i", "o", "n">>)

extractFromDeps(depObj) ==
  IF ~JTruthy(depObj) THEN Parsed(<<>>)
  ELSE LET entries == ObjectEntries(depObj)
       IN IF \E i \in 1..Len(entries) : Nullish(entries[i].v) THEN Thrown("TypeError")
          ELSE Parsed(Flatten([i \in 1..Len(entries) |->
                        IF JTruthy(DirectVersion(entries[i].v))
                          THEN <<DepOf(ECOSYSTEM_MAP["pnpm-lock"], entries[i].k,
                                       Copied(DirectVersion(entries[i].v)))>>
                          ELSE <<>>]))

parsePnpmLock(text) ==
  LET data == text.decoded
  IN IF data.t = "error" THEN Thrown("YAMLException")
     ELSE LET packages == GetOptional(data, <<"p", "a", "c", "k", "a", "g", "e", "s">>)
              deps == IF JTruthy(packages) THEN PnpmPackages(ObjectEntries(packages))
                      ELSE <<>>
              direct == extractFromDeps(GetOptional(data, <<"d", "e", "p", "e", "n", "d", "e", "n", "c", "i", "e", "s">>))
              dev == extractFromDeps(GetOptional(data, <<"d", "e", "v", "D", "e", "p", "e", "n", "d", "e", "n", "c", "i", "e", "s">>))
          IN IF Len(deps) # 0 THEN Parsed(deps)
             ELSE IF direct.error # "none" THEN direct
             ELSE IF dev.error # "none" THEN dev
             ELSE Parsed(direct.deps \o dev.deps)

\* ------------------------------------------------- parsePoetryLock, parseCargoLock

\* The members of data.package that have a name and a version; no member of a
\* TOML array is null.
LockedPackages(data) ==
  LET package == Get(data, <<"p", "a", "c", "k", "a", "g", "e">>)
  IN IF JTruthy(package) /\ package.t = "array"
       THEN SelectSeqBy([i \in 1..Len(package.kids) |-> package.kids[i].v],
                        {pkg \in {package.kids[i].v : i \in 1..Len(package.kids)} :
                           JTruthy(Get(pkg, <<"n", "a", "m", "e">>))
                           /\ JTruthy(Get(pkg, <<"v", "e", "r", "s", "i", "o", "n">>))})
       ELSE <<>>

parsePoetryLock(text) ==
  LET data == text.decoded
      pkgs == LockedPackages(data)
  IN IF data.t = "error" THEN Thrown("TomlError")
     ELSE IF \E i \in 1..Len(pkgs) : Get(pkgs[i], <<"n", "a", "m", "e">>).t # "string"
       THEN Thrown("TypeError")
     ELSE Parsed([i \in 1..Len(pkgs) |->
                    DepOf(ECOSYSTEM_MAP["poetry-lock"], toLowerCase(Get(pkgs[i], <<"n", "a", "m", "e">>).s),
                          Copied(Get(pkgs[i], <<"v", "e", "r", "s", "i", "o", "n">>)))])

parseCargoLock(text) ==
  LET data == text.decoded
      pkgs == LockedPackages(data)
  IN IF data.t = "error" THEN Thrown("TomlError")
     ELSE Parsed([i \in 1..Len(pkgs) |->
                    DepOf(ECOSYSTEM_MAP["cargo-lock"], Copied(Get(pkgs[i], <<"n", "a", "m", "e">>)),
                          Copied(Get(pkgs[i], <<"v", "e", "r", "s", "i", "o", "n">>)))])

\* ------------------------------------------------------------ parseDependencies

\* The keys that PARSERS inherits from Object.prototype, by the one the model
\* draws.
InheritedKeys == {"toString"}

\* Object.prototype.toString called without a receiver.
ObjectUndefined == <<"[", "o", "b", "j", "e", "c", "t", " ", "U", "n", "d", "e", "f", "i", "n", "e", "d", "]">>

\* PARSERS[manifest_type](text)
PARSERS(manifest_type, text) ==
  CASE manifest_type = "package-lock" -> parsePackageLock(text)
    [] manifest_type = "pnpm-lock" -> parsePnpmLock(text)
    [] manifest_type = "yarn-lock" -> Parsed(parseYarnLock(text.lines))
    [] manifest_type = "requirements" -> Parsed(parseRequirements(text.lines))
    [] manifest_type = "poetry-lock" -> parsePoetryLock(text)
    [] manifest_type = "go-mod" -> Parsed(parseGoMod(text.lines))
    [] manifest_type = "cargo-lock" -> parseCargoLock(text)
    [] manifest_type \in InheritedKeys -> Parsed(ObjectUndefined)

\* !text || text.trim() === '' does not throw and holds.
TextRefused(input) ==
  \/ ~Has(input, "text")
  \/ input.text.type = "string" /\ BlankText(input.text.lines)

\* text.trim is not a function.
TrimThrows(input) == Has(input, "text") /\ input.text.type # "string"

\* !parser
NoParser(input) ==
  \/ ~Has(input, "manifest_type")
  \/ input.manifest_type \notin ManifestTypes \cup InheritedKeys

ManifestTypeOf(input) == IF Has(input, "manifest_type") THEN input.manifest_type ELSE "undefined"

\* A mutant: the warning is given whatever was found.
ParseWarningsAlways(dependencies) == <<"No dependencies found in manifest">>

\* dependencies.length === 0 ? ['No dependencies found in manifest'] : []
ParseWarnings(dependencies) ==
  IF Len(dependencies) = 0 THEN <<"No dependencies found in manifest">> ELSE <<>>

\* The outcome of parseDependencies(input) called at time `now`.
parseDependencies(input, now) ==
  IF TrimThrows(input) THEN Throw("TypeError")
  ELSE IF TextRefused(input)
    THEN Return(createErrorResponse("INVALID_INPUT", <<"Manifest text cannot be empty">>,
                                    [manifest_type |-> ManifestTypeOf(input)], now))
  ELSE IF NoParser(input)
    THEN Return(createErrorResponse("INVALID_INPUT",
                                    <<"Unsupported manifest type: ", ManifestTypeOf(input)>>,
                                    [supported_types |-> ManifestTypes], now))
  ELSE LET parsed == PARSERS(input.manifest_type, input.text)
       IN IF parsed.error # "none"
            THEN Return(createErrorResponse("PARSE_ERROR",
                          <<"Failed to parse ", input.manifest_type, ": ", parsed.error>>,
                          [manifest_type |-> input.manifest_type], now))
            ELSE Return(createSuccessResponse(
                          [dependencies |-> parsed.deps, count |-> Len(parsed.deps)],
                          [source |-> <<"parsed from ", input.manifest_type>>,
                           warnings |-> ParseWarnings(parsed.deps)],
                          now))

\* The parsers that a call of parseDependencies(input) runs.
ParsersRun(input) ==
  IF TrimThrows(input) \/ TextRefused(input) \/ NoParser(input) THEN {}
  ELSE {input.manifest_type}

\* The suggestion logic that a call of suggestFixes(input) runs.
SuggestionsRun(input) == IF input.vuln_results_type = "array" THEN {"suggestions"} ELSE {}

\* ParseDependenciesInputSchema.parse(args) succeeds.
ParseDependenciesInputValid(args) ==
  /\ Has(args, "text") /\ args.text.type = "string"
  /\ Has(args, "manifest_type") /\ args.manifest_type \in ManifestTypes

\* case 'parse_dependencies' of the CallToolRequestSchema handler.
CallParseDependencies(args, now) ==
  IF ~ParseDependenciesInputValid(args) THEN InternalError(now)
  ELSE LET r == parseDependencies(args, now)
       IN IF r.kind = "throw" THEN InternalError(now)
          ELSE ToolResult(JSONStringify(r.value), FALSE)

\* The default case of the handler.
CallUnknownTool(name, now) ==
  ToolResult(createErrorResponse("INVALID_INPUT", <<"Unknown tool: ", name>>, NoDetails, now),
             TRUE)

\* ------------------------------------------------------- CVSS score parsing

\* A number is the pair <<n, d>> of the fraction n / d, d a power of ten.
Num(n, d) == <<n, d>>

RECURSIVE Pow10(_)
Pow10(k) == IF k = 0 THEN 1 ELSE 10 * Pow10(k - 1)

Less(x, y) == x[1] * y[2] < y[1] * x[2]

\* /^(\d+\.?\d*)$/
NumericMatch(score) ==
  LET i == DigitRun(score)
      rest == Drop(score, i)
      frac == IF rest # <<>> /\ Head(rest) = "." THEN Tail(rest) ELSE rest
  IN  i > 0 /\ DigitRun(frac) = Len(frac)

parseFloat(score) ==
  LET i == DigitRun(score)
      frac == IF i < Len(score) THEN Drop(score, i + 1) ELSE <<>>
  IN  Num(ParseInt(Take(score, i)) * Pow10(Len(frac)) + ParseInt(frac), Pow10(Len(frac)))

includes(s, sub) ==
  \E i \in 1..(Len(s) - Len(sub) + 1) : SubSeq(s, i, i + Len(sub) - 1) = sub

parseCVSSScore(score) ==
  IF NumericMatch(score) THEN parseFloat(score)
  ELSE IF startsWith(score, <<"C", "V", "S", "S", ":">>) THEN
    IF includes(score, <<"/", "C", ":", "H", "/", "I", ":", "H", "/", "A", ":", "H">>) THEN Num(98, 10)
    ELSE IF includes(score, <<"/", "C", ":", "H", "/", "I", ":", "H">>) THEN Num(85, 10)
    ELSE IF includes(score, <<"/", "C", ":", "H">>) THEN Num(75, 10)
    ELSE IF includes(score, <<"/", "C", ":", "L">>) THEN Num(40, 10)
    ELSE Num(50, 10)
  ELSE NULL

getSeverityFromScoreAbove(score) ==
  IF score = NULL THEN NULL
  ELSE IF Less(Num(9, 1), score) THEN <<"C", "R", "I", "T", "I", "C", "A", "L">>
  ELSE IF Less(Num(7, 1), score) THEN <<"H", "I", "G", "H">>
  ELSE IF Less(Num(4, 1), score) THEN <<"M", "E", "D", "I", "U", "M">>
  ELSE IF Less(Num(0, 1), score) THEN <<"L", "O", "W">>
  ELSE <<"N", "O", "N", "E">>

getSeverityFromScore(score) ==
  IF score = NULL THEN NULL
  ELSE IF ~Less(score, Num(9, 1)) THEN <<"C", "R", "I", "T", "I", "C", "A", "L">>
  ELSE IF ~Less(score, Num(7, 1)) THEN <<"H", "I", "G", "H">>
  ELSE IF ~Less(score, Num(4, 1)) THEN <<"M", "E", "D", "I", "U", "M">>
  ELSE IF Less(Num(0, 1), score) THEN <<"L", "O", "W">>
  ELSE <<"N", "O", "N", "E">>

\* for (const sev of severity): the highest score that parses.
RECURSIVE HighestScore(_, _)
HighestScore(severityScore, severity) ==
  IF severity = <<>> THEN severityScore
  ELSE LET score == parseCVSSScore(Head(severity).score)
       IN  HighestScore(IF score # NULL /\ (severityScore = NULL \/ Less(severityScore, score))
                          THEN score ELSE severityScore,
                        Tail(severity))

RECURSIVE AffectedScore(_, _)
AffectedScore(severityScore, affected) ==
  IF affected = <<>> THEN severityScore
  ELSE AffectedScore(IF Has(Head(affected), "severity")
                       THEN HighestScore(severityScore, Head(affected).severity)
                       ELSE severityScore,
                     Tail(affected))

\* The severity of one vulnerability of the advisory database's answer.
ProcessedSeverity(vuln) ==
  LET own == IF Has(vuln, "severity") /\ Len(vuln.severity) > 0
               THEN HighestScore(NULL, vuln.severity) ELSE NULL
      severityScore == AffectedScore(own, vuln.affected)
  IN  [severity |-> getSeverityFromScore(severityScore), severity_score |-> severityScore]

\* ------------------------------------------------------- stateless HTTP server

\* new URL(target, 'http://' + host): the pathname, or a TypeError.  Targets and
\* hosts are taken without percent-escapes, dot segments, backslashes and
\* userinfo.
ForbiddenHostChars == {" ", "[", "]", "<", ">", "^", "|", "%", "\\"}

PathStopChars == {"?", "#"}

AuthorityStopChars == {"/", "?", "#"}

InvalidURL == <<"TypeError: Invalid URL">>

\* The host of an authority is not empty and has no forbidden code point.
HostOk(authority) == authority # <<>> /\ Range(authority) \cap ForbiddenHostChars = {}

HostPart(host) == Take(host, PrefixNotIn(host, AuthorityStopChars))

PathPart(s) == Take(s, PrefixNotIn(s, PathStopChars))

HttpScheme == <<"h", "t", "t", "p", ":">>

URLPathname(target, host) ==
  LET base == IF host = <<>> THEN <<"l", "o", "c", "a", "l", "h", "o", "s", "t">> ELSE host
      abs == IF startsWith(target, HttpScheme) THEN Drop(target, Len(HttpScheme)) ELSE target
      authority == HostPart(Drop(abs, 2))
      after == PathPart(Drop(abs, 2 + Len(authority)))
      BaseDir ==
        LET p == PathPart(Drop(base, Len(HostPart(base))))
            cut == IF "/" \in Range(p)
                     THEN CHOOSE i \in 1..Len(p) : p[i] = "/" /\ \A j \in (i + 1)..Len(p) : p[j] # "/"
                     ELSE 0
        IN  IF cut = 0 THEN <<"/">> ELSE Take(p, cut)
  IN  IF ~HostOk(HostPart(base)) THEN InvalidURL
      ELSE IF startsWith(abs, <<"/", "/">>) THEN
        IF ~HostOk(authority) THEN InvalidURL
        ELSE IF after = <<>> THEN <<"/">> ELSE after
      ELSE IF abs # <<>> /\ Head(abs) = "/" THEN PathPart(abs)
      ELSE IF PathPart(abs) = <<>> THEN
        LET p == PathPart(Drop(base, Len(HostPart(base)))) IN IF p = <<>> THEN <<"/">> ELSE p
      ELSE BaseDir \o PathPart(abs)

\* What is written to res: the status and the body.
Sent(status, kind, code, id) == [status |-> status, kind |-> kind, code |-> code, id |-> id]

RpcResult(id) == [kind |-> "rpc result", code |-> 0, id |-> id]

RpcError(id, code) == [kind |-> "rpc error", code |-> code, id |-> id]

\* handleJsonRpcRequest: the replies to a request whose tool arguments are args.
handleJsonRpcRequest(request, args, now) ==
  LET id == Get(request, "id")
      method == Get(request, "method")
      toolName == GetOptional(Get(request, "params"), "name")
  IN  IF method = JString(<<"i", "n", "i", "t", "i", "a", "l", "i", "z", "e">>) \/ method = JString(<<"t", "o", "o", "l", "s", "/", "l", "i", "s", "t">>) THEN {RpcResult(id)}
      ELSE IF method = JString(<<"t", "o", "o", "l", "s", "/", "c", "a", "l", "l">>) THEN
        IF toolName = JString(<<"p", "a", "r", "s", "e", "_", "d", "e", "p", "e", "n", "d", "e", "n", "c", "i", "e", "s">>) THEN
          IF ParseDependenciesInputValid(args) /\ parseDependencies(args, now).kind = "return"
            THEN {RpcResult(id)} ELSE {RpcError(id, -32603)}
        ELSE IF toolName = JString(<<"o", "s", "v", "_", "q", "u", "e", "r", "y">>) THEN {RpcResult(id), RpcError(id, -32603)}
        ELSE IF toolName = JString(<<"s", "u", "g", "g", "e", "s", "t", "_", "f", "i", "x", "e", "s">>) THEN
          IF ~SuggestFixesInputValid(args) THEN {RpcError(id, -32603)}
          ELSE {IF r.kind = "return" THEN RpcResult(id) ELSE RpcError(id, -32603) :
                  r \in suggestFixes(args, now)}
        ELSE {RpcError(id, -32601)}
      ELSE {RpcError(id, -32601)}

handleHealthCheck == Sent(200, "health", 0, JUndefined)

handleNotFound == Sent(404, "not found", 0, JUndefined)

handleMethodNotAllowed == Sent(405, "method not allowed", 0, JUndefined)

ServerError == Sent(500, "server error", 0, JUndefined)

\* handleMcpRequest: what it sends for a body that decodes to request.
handleMcpRequest(request, args, now) ==
  IF request = DecodeError \/ Nullish(request) THEN {ServerError}
  ELSE IF ~JTruthy(Get(request, "jsonrpc")) \/ Get(request, "jsonrpc") # JString(<<"2", ".", "0">>)
    THEN {Sent(400, "rpc error", -32600,
               IF JTruthy(Get(request, "id")) THEN Get(request, "id") ELSE JNumber(<<"0">>))}
  ELSE {Sent(200, r.kind, r.code, r.id) : r \in handleJsonRpcRequest(request, args, now)}

\* The listener of createHttpServer: the headers set on res and the responses
\* sent, or the rejection of the listener's promise with nothing sent.
Handled(sent) == [headers |-> {"Access-Control-Allow-Origin: *"}, sent |-> sent, rejected |-> FALSE]

Rejected == [headers |-> {}, sent |-> <<>>, rejected |-> TRUE]

OnRequest(req, now) ==
  LET pathname == URLPathname(req.url, req.host)
      method == req.method
  IN  IF pathname = InvalidURL THEN {Rejected}
      ELSE IF method = "OPTIONS" THEN {Handled(<<Sent(204, "empty", 0, JUndefined)>>)}
      ELSE IF pathname = <<"/", "m", "c", "p">> THEN
        IF method = "POST" THEN {Handled(<<s>>) : s \in handleMcpRequest(req.body, req.args, now)}
        ELSE {Handled(<<handleMethodNotAllowed>>)}
      ELSE IF pathname = <<"/", "h", "e", "a", "l", "t", "h">> THEN
        IF method = "GET" THEN {Handled(<<handleHealthCheck>>)}
        ELSE {Handled(<<handleMethodNotAllowed>>)}
      ELSE {Handled(<<handleNotFound>>)}

\* ------------------------------------------------- session-based HTTP transport

MaxRequests == 2

\* A session has the id of the request that created it (randomUUID is fresh).
SessionIds == 1..MaxRequests

\* createHttpTransport has returned: no session, no request, no server.
TransportCreated ==
  /\ sessions = <<>>
  /\ requests = [r \in SessionIds |-> [pc |-> "none", session |-> 0]]
  /\ transports = [id \in SessionIds |-> [onclose |-> FALSE, closed |-> FALSE]]
  /\ stopping = [pc |-> "idle", visited |-> {}]
  /\ httpServer = "null"

\* sessions.delete(id)
Delete(map, id) == SelectSeqBy(map, Range(map) \ {id})

\* transport.close(): the transport is closed and its onclose, if it is the
\* cleanup of the session, deletes the session from the map.
AfterClose(id) == IF transports[id].onclose THEN Delete(sessions, id) ELSE sessions

Close(id) ==
  /\ transports' = [transports EXCEPT ![id].closed = TRUE]
  /\ sessions' = AfterClose(id)

\* start(): the server listens.
Start ==
  /\ httpServer = "null" /\ stopping.pc = "idle"
  /\ httpServer' = "listening"
  /\ UNCHANGED <<call, result, invoked, sessions, requests, transports, stopping>>

\* The server accepts the connection of a request.
Accept(r) ==
  /\ httpServer = "listening" /\ requests[r].pc = "none"
  /\ requests' = [requests EXCEPT ![r].pc = "open"]
  /\ UNCHANGED <<call, result, invoked, sessions, transports, stopping, httpServer>>

\* handleMcpRequest up to its first await: the session named by the header
\* mcp-session-id is looked up, or a session is created and put into the map.
\* A client names a session (sessionId # 0) that a response has told it of.
Receive(r, sessionId) ==
  /\ requests[r].pc = "open"
  /\ sessionId # 0 => transports[sessionId].onclose
  /\ IF sessionId # 0 /\ sessionId \in Range(sessions)
       THEN /\ requests' = [requests EXCEPT ![r] = [pc |-> "handling", session |-> sessionId]]
            /\ UNCHANGED sessions
       ELSE /\ requests' = [requests EXCEPT ![r] = [pc |-> "connecting", session |-> r]]
            /\ sessions' = Append(sessions, r)
  /\ UNCHANGED <<call, result, invoked, transports, stopping, httpServer>>

\* await server.connect(transport) returns: the cleanup is registered.
Connected(r) ==
  /\ requests[r].pc = "connecting"
  /\ transports' = [transports EXCEPT ![requests[r].session].onclose = TRUE]
  /\ requests' = [requests EXCEPT ![r].pc = "handling"]
  /\ UNCHANGED <<call, result, invoked, sessions, stopping, httpServer>>

\* await session.transport.handleRequest(req, res) returns; a DELETE request
\* closes the transport.
TransportHandled(r, delete) ==
  /\ requests[r].pc = "handling"
  /\ requests' = [requests EXCEPT ![r].pc = "done"]
  /\ IF delete THEN Close(requests[r].session) ELSE UNCHANGED <<sessions, transports>>
  /\ UNCHANGED <<call, result, invoked, stopping, httpServer>>

\* The entries of the map that the loop of stop() has not visited.
Unvisited == SelectSeqBy(sessions, Range(sessions) \ stopping.visited)

\* stop() runs to its next await: it closes the next session of the map or,
\* after the last, clears the map and closes the server.
StopStep ==
  IF Unvisited # <<>>
    THEN /\ Close(Head(Unvisited))
         /\ stopping' = [pc |-> "closing", visited |-> stopping.visited \cup {Head(Unvisited)}]
         /\ UNCHANGED httpServer
    ELSE /\ sessions' = <<>>
         /\ stopping' = [stopping EXCEPT !.pc = IF httpServer = "null" THEN "resolved" ELSE "cleared"]
         /\ httpServer' = IF httpServer = "null" THEN "null" ELSE "closed"
         /\ UNCHANGED transports

\* stop() is called.
Stop ==
  /\ stopping.pc = "idle"
  /\ StopStep
  /\ UNCHANGED <<call, result, invoked, requests>>

\* stop() resumes after await session.transport.close().
StopResume ==
  /\ stopping.pc = "closing"
  /\ StopStep
  /\ UNCHANGED <<call, result, invoked, requests>>

\* The callback of httpServer.close: every connection has ended.
StopResolved ==
  /\ stopping.pc = "cleared"
  /\ \A r \in SessionIds : requests[r].pc \in {"none", "done"}
  /\ stopping' = [stopping EXCEPT !.pc = "resolved"]
  /\ UNCHANGED <<call, result, invoked, sessions, requests, transports, httpServer>>

\* --------------------------------------------------------------------- inputs

MaxFixed == 3
MaxVulns == 2
MaxEntries == 3
MaxClock == 1

\* The times at which a call can read the clock (new Date().toISOString()).
Clock == 0..MaxClock

\* "", "1", "2", "10", "1a", "v2", "1-a", "1.1"
VersionPool ==
  {<<>>, <<"1">>, <<"2">>, <<"1", "0">>, <<"1", "a">>, <<"v", "2">>,
   <<"1", "-", "a">>, <<"1", ".", "1">>}

Dep(name, version) == [ecosystem |-> "npm", name |-> name, version |-> version, missing |-> {}]

DepWithoutVersion(name) ==
  [ecosystem |-> "npm", name |-> name, version |-> UNDEF, missing |-> {"version"}]

NoDependency == [ecosystem |-> "undefined", name |-> "undefined", version |-> UNDEF, missing |-> {}]

CurrentDeps ==
  {Dep("lodash", <<"1">>), Dep("lodash", <<"2">>), Dep("lodash", <<"1", "a">>),
   DepWithoutVersion("lodash")}

Vuln(id, severity, fixed_versions, aliases) ==
  [id |-> id, severity |-> severity, fixed_versions |-> fixed_versions, aliases |-> aliases,
   missing |-> {}]

Entry(dependency, vulnerabilities) ==
  [dependency |-> dependency, vulnerabilities |-> vulnerabilities, missing |-> {}]

VulnResults(entries) == [vuln_results_type |-> "array", vuln_results |-> entries]

\* One entry with one vulnerability: a current version against a list of fixed
\* versions.
VersionInput(d, fx) == VulnResults(<<Entry(d, <<Vuln("GHSA-1", "HIGH", fx, <<>>)>>)>>)

SeverityPool == {"CRITICAL", "HIGH", "MEDIUM", "LOW", "NONE", "high", "bogus", "null"}

Cve1 == <<"C", "V", "E", "-", "1">>

Ghsa1 == <<"G", "H", "S", "A", "-", "1">>

VulnPool ==
  {Vuln("GHSA-1", sev, <<<<"2">>>>, <<Cve1, Ghsa1>>) : sev \in SeverityPool}
  \cup {Vuln("GHSA-2", sev, <<<<"1", ".", "1">>, <<"2">>>>, <<>>) : sev \in SeverityPool}
  \cup {[Vuln("GHSA-3", "undefined", <<<<"2">>>>, <<Cve1>>) EXCEPT !.missing = {"severity"}],
        [Vuln("GHSA-4", "LOW", <<>>, <<>>) EXCEPT !.missing = {"fixed_versions"}],
        [Vuln("GHSA-5", "LOW", <<<<"2">>>>, <<>>) EXCEPT !.missing = {"aliases"}]}

\* One entry with a list of vulnerabilities.
SeverityInput(vs) == VulnResults(<<Entry(Dep("lodash", <<"1">>), vs)>>)

EntryPool ==
  {Entry(Dep("a", <<"1">>), <<Vuln("GHSA-1", "CRITICAL", <<<<"2">>>>, <<>>)>>),
   Entry(Dep("b", <<"1">>), <<Vuln("GHSA-1", "LOW", <<<<"2">>>>, <<>>)>>),
   Entry(Dep("c", <<"1">>), <<Vuln("GHSA-1", "MEDIUM", <<<<"2">>>>, <<>>)>>),
   Entry(Dep("d", <<"1">>), <<Vuln("GHSA-1", "LOW", <<>>, <<>>)>>),
   Entry(Dep("e", <<"1">>), <<>>),
   Entry(Dep("f", <<"1">>), <<Vuln("GHSA-1", "HIGH", <<<<"2">>>>, <<>>)>>),
   [Entry(Dep("g", <<"1">>), <<>>) EXCEPT !.missing = {"vulnerabilities"}],
   [Entry(NoDependency, <<Vuln("GHSA-1", "HIGH", <<<<"2">>>>, <<>>)>>)
      EXCEPT !.missing = {"dependency"}]}

\* vuln_results absent, null, a string, an object.
NonListInput(t) == [vuln_results_type |-> t, vuln_results |-> <<>>]

NonListTypes == {"undefined", "null", "string", "object"}

\* ----------------------------------------------------------- inputs: manifests

MaxLines == 2

\* A manifest text: its lines (text.split('\n')) and what the decoder of the
\* dialect it is written in makes of it.
Text(lines, decoded) == [type |-> "string", lines |-> lines, decoded |-> decoded]

\* A text argument that is a number.
NumberText == [type |-> "number", lines |-> <<>>, decoded |-> JUndefined]

ParseInput(text, manifest_type) ==
  [text |-> text, manifest_type |-> manifest_type, missing |-> {}]

Without(input, fields) == [input EXCEPT !.missing = fields]

\* The lines of the manifests of the line dialects.
LinePool ==
  { <<>>,
    <<" ", "\t">>,
    <<"#", " ", "c">>,
    <<"a", "=", "=", "1">>,
    <<"B", "[", "x", "]", ">", "=", " ", "2", ";", "m">>,
    <<"c">>,
    <<"-", "r", " ", "x">>,
    <<"r", "e", "q", "u", "i", "r", "e", " ", "a", " ", "v", "1">>,
    <<"r", "e", "q", "u", "i", "r", "e", " ", "(">>,
    <<"b", " ", "v", "2", " ", "/", "/", " ", "i", "n", "d", "i", "r", "e", "c", "t">>,
    <<")">>,
    <<"a", "@", "^", "1", ",", " ", "\"", "b", "@", "^", "2", "\"", ":">>,
    <<" ", " ", "v", "e", "r", "s", "i", "o", "n", " ", "\"", "1", "\"">>,
    <<"c", " ", "v">>,
    <<" ", " ", "v", "e", "r", "s", "i", "o", "n", " ", "2">>,
    <<"a", "@", "1", ",", " ", "a", "@", "2", ":">>,
    <<"z", ".", "i", "=", "=", "1">>,
    <<"d", " ", "v", "v", "3">>,
    <<"m", "o", "d", "u", "l", "e", " ", "m">> }

LineTypes == {"yarn-lock", "requirements", "go-mod"}

\* Manifest types outside the seven dialects.
OtherTypes == {"bogus", "toString"}

\* package-lock.json texts and what JSON.parse makes of them.
JsonTexts ==
  {
     \* {"packages":{"":{"version":"1"},"node_modules/a":{"version":"1"},"node_modules/a/node_modules/b":{"version":"2"}}}
     Text(<< <<"{", "\"", "p", "a", "c", "k", "a", "g", "e", "s", "\"", ":", "{", "\"", "\"", ":", "{", "\"", "v", "e", "r", "s", "i", "o", "n", "\"", ":", "\"", "1", "\"", "}", ",", "\"", "n", "o", "d", "e", "_", "m", "o", "d", "u", "l", "e", "s", "/", "a", "\"", ":", "{", "\"", "v", "e", "r", "s", "i", "o", "n", "\"", ":", "\"", "1", "\"", "}", ",", "\"", "n", "o", "d", "e", "_", "m", "o", "d", "u", "l", "e", "s", "/", "a", "/", "n", "o", "d", "e", "_", "m", "o", "d", "u", "l", "e", "s", "/", "b", "\"", ":", "{", "\"", "v", "e", "r", "s", "i", "o", "n", "\"", ":", "\"", "2", "\"", "}", "}", "}">> >>,
          JObject(<< P(<<"p", "a", "c", "k", "a", "g", "e", "s">>, JObject(<< P(<<>>, JObject(<< P(<<"v", "e", "r", "s", "i", "o", "n">>, JString(<<"1">>)) >>)), P(<<"n", "o", "d", "e", "_", "m", "o", "d", "u", "l", "e", "s", "/", "a">>, JObject(<< P(<<"v", "e", "r", "s", "i", "o", "n">>, JString(<<"1">>)) >>)), P(<<"n", "o", "d", "e", "_", "m", "o", "d", "u", "l", "e", "s", "/", "a", "/", "n", "o", "d", "e", "_", "m", "o", "d", "u", "l", "e", "s", "/", "b">>, JObject(<< P(<<"v", "e", "r", "s", "i", "o", "n">>, JString(<<"2">>)) >>)) >>)) >>)),
     \* {"dependencies":{"a":{"version":"1","dependencies":{"b":{"version":"2"}}},"c":{}}}
     Text(<< <<"{", "\"", "d", "e", "p", "e", "n", "d", "e", "n", "c", "i", "e", "s", "\"", ":", "{", "\"", "a", "\"", ":", "{", "\"", "v", "e", "r", "s", "i", "o", "n", "\"", ":", "\"", "1", "\"", ",", "\"", "d", "e", "p", "e", "n", "d", "e", "n", "c", "i", "e", "s", "\"", ":", "{", "\"", "b", "\"", ":", "{", "\"", "v", "e", "r", "s", "i", "o", "n", "\"", ":", "\"", "2", "\"", "}", "}", "}", ",", "\"", "c", "\"", ":", "{", "}", "}", "}">> >>,
          JObject(<< P(<<"d", "e", "p", "e", "n", "d", "e", "n", "c", "i", "e", "s">>, JObject(<< P(<<"a">>, JObject(<< P(<<"v", "e", "r", "s", "i", "o", "n">>, JString(<<"1">>)), P(<<"d", "e", "p", "e", "n", "d", "e", "n", "c", "i", "e", "s">>, JObject(<< P(<<"b">>, JObject(<< P(<<"v", "e", "r", "s", "i", "o", "n">>, JString(<<"2">>)) >>)) >>)) >>)), P(<<"c">>, JObject(<<>>)) >>)) >>)),
     \* null
     Text(<< <<"n", "u", "l", "l">> >>,
          JNull),
     \* {"packages":{"node_modules/a":null}}
     Text(<< <<"{", "\"", "p", "a", "c", "k", "a", "g", "e", "s", "\"", ":", "{", "\"", "n", "o", "d", "e", "_", "m", "o", "d", "u", "l", "e", "s", "/", "a", "\"", ":", "n", "u", "l", "l", "}", "}">> >>,
          JObject(<< P(<<"p", "a", "c", "k", "a", "g", "e", "s">>, JObject(<< P(<<"n", "o", "d", "e", "_", "m", "o", "d", "u", "l", "e", "s", "/", "a">>, JNull) >>)) >>)),
     \* {"dependencies":{"a":null}}
     Text(<< <<"{", "\"", "d", "e", "p", "e", "n", "d", "e", "n", "c", "i", "e", "s", "\"", ":", "{", "\"", "a", "\"", ":", "n", "u", "l", "l", "}", "}">> >>,
          JObject(<< P(<<"d", "e", "p", "e", "n", "d", "e", "n", "c", "i", "e", "s">>, JObject(<< P(<<"a">>, JNull) >>)) >>)),
     \* {
     Text(<< <<"{">> >>,
          DecodeError),
     \* {}
     Text(<< <<"{", "}">> >>,
          JObject(<<>>)),
     \* "x"
     Text(<< <<"\"", "x", "\"">> >>,
          JString(<<"x">>)),
     \* {"packages":{"node_modules/a":{"version":1},"node_modules/":{"version":"1"},"node_modules/b":"x"}}
     Text(<< <<"{", "\"", "p", "a", "c", "k", "a", "g", "e", "s", "\"", ":", "{", "\"", "n", "o", "d", "e", "_", "m", "o", "d", "u", "l", "e", "s", "/", "a", "\"", ":", "{", "\"", "v", "e", "r", "s", "i", "o", "n", "\"", ":", "1", "}", ",", "\"", "n", "o", "d", "e", "_", "m", "o", "d", "u", "l", "e", "s", "/", "\"", ":", "{", "\"", "v", "e", "r", "s", "i", "o", "n", "\"", ":", "\"", "1", "\"", "}", ",", "\"", "n", "o", "d", "e", "_", "m", "o", "d", "u", "l", "e", "s", "/", "b", "\"", ":", "\"", "x", "\"", "}", "}">> >>,
          JObject(<< P(<<"p", "a", "c", "k", "a", "g", "e", "s">>, JObject(<< P(<<"n", "o", "d", "e", "_", "m", "o", "d", "u", "l", "e", "s", "/", "a">>, JObject(<< P(<<"v", "e", "r", "s", "i", "o", "n">>, JNumber(<<"1">>)) >>)), P(<<"n", "o", "d", "e", "_", "m", "o", "d", "u", "l", "e", "s", "/">>, JObject(<< P(<<"v", "e", "r", "s", "i", "o", "n">>, JString(<<"1">>)) >>)), P(<<"n", "o", "d", "e", "_", "m", "o", "d", "u", "l", "e", "s", "/", "b">>, JString(<<"x">>)) >>)) >>))
  }

\* pnpm-lock.yaml texts and what yaml.load makes of them.
YamlTexts ==
  {
     \* packages: {/a@1: {}, /@s/b@2: {}, /c/3: {}, d: {}}
     Text(<< <<"p", "a", "c", "k", "a", "g", "e", "s", ":">>, <<" ", " ", "/", "a", "@", "1", ":", " ", "{", "}">>, <<" ", " ", "/", "@", "s", "/", "b", "@", "2", ":", " ", "{", "}">>, <<" ", " ", "/", "c", "/", "3", ":", " ", "{", "}">>, <<" ", " ", "d", ":", " ", "{", "}">> >>,
          JObject(<< P(<<"p", "a", "c", "k", "a", "g", "e", "s">>, JObject(<< P(<<"/", "a", "@", "1">>, JObject(<<>>)), P(<<"/", "@", "s", "/", "b", "@", "2">>, JObject(<<>>)), P(<<"/", "c", "/", "3">>, JObject(<<>>)), P(<<"d">>, JObject(<<>>)) >>)) >>)),
     \* packages: {/a@1: {}, a@1: {}}
     Text(<< <<"p", "a", "c", "k", "a", "g", "e", "s", ":">>, <<" ", " ", "/", "a", "@", "1", ":", " ", "{", "}">>, <<" ", " ", "a", "@", "1", ":", " ", "{", "}">> >>,
          JObject(<< P(<<"p", "a", "c", "k", "a", "g", "e", "s">>, JObject(<< P(<<"/", "a", "@", "1">>, JObject(<<>>)), P(<<"a", "@", "1">>, JObject(<<>>)) >>)) >>)),
     \* dependencies: {a: '1', b: {version: '2'}, c: {}}
     Text(<< <<"d", "e", "p", "e", "n", "d", "e", "n", "c", "i", "e", "s", ":">>, <<" ", " ", "a", ":", " ", "'", "1", "'">>, <<" ", " ", "b", ":">>, <<" ", " ", " ", " ", "v", "e", "r", "s", "i", "o", "n", ":", " ", "'", "2", "'">>, <<" ", " ", "c", ":", " ", "{", "}">> >>,
          JObject(<< P(<<"d", "e", "p", "e", "n", "d", "e", "n", "c", "i", "e", "s">>, JObject(<< P(<<"a">>, JString(<<"1">>)), P(<<"b">>, JObject(<< P(<<"v", "e", "r", "s", "i", "o", "n">>, JString(<<"2">>)) >>)), P(<<"c">>, JObject(<<>>)) >>)) >>)),
     \* packages: {d: {}}, devDependencies: {b: '1'}
     Text(<< <<"p", "a", "c", "k", "a", "g", "e", "s", ":">>, <<" ", " ", "d", ":", " ", "{", "}">>, <<"d", "e", "v", "D", "e", "p", "e", "n", "d", "e", "n", "c", "i", "e", "s", ":">>, <<" ", " ", "b", ":", " ", "'", "1", "'">> >>,
          JObject(<< P(<<"p", "a", "c", "k", "a", "g", "e", "s">>, JObject(<< P(<<"d">>, JObject(<<>>)) >>)), P(<<"d", "e", "v", "D", "e", "p", "e", "n", "d", "e", "n", "c", "i", "e", "s">>, JObject(<< P(<<"b">>, JString(<<"1">>)) >>)) >>)),
     \* dependencies: {a: null}
     Text(<< <<"d", "e", "p", "e", "n", "d", "e", "n", "c", "i", "e", "s", ":">>, <<" ", " ", "a", ":">> >>,
          JObject(<< P(<<"d", "e", "p", "e", "n", "d", "e", "n", "c", "i", "e", "s">>, JObject(<< P(<<"a">>, JNull) >>)) >>)),
     \* a: [
     Text(<< <<"a", ":", " ", "[">> >>,
          DecodeError),
     \* a comment only
     Text(<< <<"#", " ", "c">> >>,
          JUndefined),
     \* a scalar
     Text(<< <<"x">> >>,
          JString(<<"x">>))
  }

\* poetry.lock and Cargo.lock texts and what parseTOML makes of them.
TomlTexts ==
  {
     \* [[package]] name = "a" version = "1"  [[package]] name = "a" version = "1"
     Text(<< <<"[", "[", "p", "a", "c", "k", "a", "g", "e", "]", "]">>, <<"n", "a", "m", "e", " ", "=", " ", "\"", "a", "\"">>, <<"v", "e", "r", "s", "i", "o", "n", " ", "=", " ", "\"", "1", "\"">>, <<"[", "[", "p", "a", "c", "k", "a", "g", "e", "]", "]">>, <<"n", "a", "m", "e", " ", "=", " ", "\"", "a", "\"">>, <<"v", "e", "r", "s", "i", "o", "n", " ", "=", " ", "\"", "1", "\"">> >>,
          JObject(<< P(<<"p", "a", "c", "k", "a", "g", "e">>, JArray(<< JObject(<< P(<<"n", "a", "m", "e">>, JString(<<"a">>)), P(<<"v", "e", "r", "s", "i", "o", "n">>, JString(<<"1">>)) >>), JObject(<< P(<<"n", "a", "m", "e">>, JString(<<"a">>)), P(<<"v", "e", "r", "s", "i", "o", "n">>, JString(<<"1">>)) >>) >>)) >>)),
     \* [[package]] name = "A" version = "1"  [[package]] name = "b" version = "2"
     Text(<< <<"[", "[", "p", "a", "c", "k", "a", "g", "e", "]", "]">>, <<"n", "a", "m", "e", " ", "=", " ", "\"", "A", "\"">>, <<"v", "e", "r", "s", "i", "o", "n", " ", "=", " ", "\"", "1", "\"">>, <<"[", "[", "p", "a", "c", "k", "a", "g", "e", "]", "]">>, <<"n", "a", "m", "e", " ", "=", " ", "\"", "b", "\"">>, <<"v", "e", "r", "s", "i", "o", "n", " ", "=", " ", "\"", "2", "\"">> >>,
          JObject(<< P(<<"p", "a", "c", "k", "a", "g", "e">>, JArray(<< JObject(<< P(<<"n", "a", "m", "e">>, JString(<<"A">>)), P(<<"v", "e", "r", "s", "i", "o", "n">>, JString(<<"1">>)) >>), JObject(<< P(<<"n", "a", "m", "e">>, JString(<<"b">>)), P(<<"v", "e", "r", "s", "i", "o", "n">>, JString(<<"2">>)) >>) >>)) >>)),
     \* [[package]] name = 1 version = "1"
     Text(<< <<"[", "[", "p", "a", "c", "k", "a", "g", "e", "]", "]">>, <<"n", "a", "m", "e", " ", "=", " ", "1">>, <<"v", "e", "r", "s", "i", "o", "n", " ", "=", " ", "\"", "1", "\"">> >>,
          JObject(<< P(<<"p", "a", "c", "k", "a", "g", "e">>, JArray(<< JObject(<< P(<<"n", "a", "m", "e">>, JNumber(<<"1">>)), P(<<"v", "e", "r", "s", "i", "o", "n">>, JString(<<"1">>)) >>) >>)) >>)),
     \* [[package]] name = "a"
     Text(<< <<"[", "[", "p", "a", "c", "k", "a", "g", "e", "]", "]">>, <<"n", "a", "m", "e", " ", "=", " ", "\"", "a", "\"">> >>,
          JObject(<< P(<<"p", "a", "c", "k", "a", "g", "e">>, JArray(<< JObject(<< P(<<"n", "a", "m", "e">>, JString(<<"a">>)) >>) >>)) >>)),
     \* package = ["x"]
     Text(<< <<"p", "a", "c", "k", "a", "g", "e", " ", "=", " ", "[", "\"", "x", "\"", "]">> >>,
          JObject(<< P(<<"p", "a", "c", "k", "a", "g", "e">>, JArray(<< JString(<<"x">>) >>)) >>)),
     \* [package] name = "a" version = "1"
     Text(<< <<"[", "p", "a", "c", "k", "a", "g", "e", "]">>, <<"n", "a", "m", "e", " ", "=", " ", "\"", "a", "\"">>, <<"v", "e", "r", "s", "i", "o", "n", " ", "=", " ", "\"", "1", "\"">> >>,
          JObject(<< P(<<"p", "a", "c", "k", "a", "g", "e">>, JObject(<< P(<<"n", "a", "m", "e">>, JString(<<"a">>)), P(<<"v", "e", "r", "s", "i", "o", "n">>, JString(<<"1">>)) >>)) >>)),
     \* x =
     Text(<< <<"x", " ", "=">> >>,
          DecodeError),
     \* a comment only
     Text(<< <<"#", " ", "c">> >>,
          JObject(<<>>))
  }

\* Texts of nothing but whitespace; no decoder is handed one.
BlankTexts ==
  {Text(<< <<>> >>, DecodeError), Text(<< <<" ">> >>, DecodeError),
   Text(<< <<>>, <<" ", "\t">>, <<>> >>, DecodeError)}

\* The texts written in the dialect of a manifest type.
TextsOf(manifest_type) ==
  CASE manifest_type = "package-lock" -> JsonTexts
    [] manifest_type = "pnpm-lock" -> YamlTexts
    [] manifest_type \in {"poetry-lock", "cargo-lock"} -> TomlTexts
    [] OTHER -> {}

\* ---------------------------------------------------- inputs: yarn.lock blocks

MaxBlockLines == 4

\* The lines of a block of a yarn.lock whose package depends on the package
\* named version.
BlockLinePool ==
  {<<"a", "@", "^", "1", ":">>, <<" ", " ", "v", "e", "r", "s", "i", "o", "n", " ", "\"", "1", "\"">>, <<" ", " ", "d", "e", "p", "e", "n", "d", "e", "n", "c", "i", "e", "s", ":">>, <<" ", " ", " ", " ", "v", "e", "r", "s", "i", "o", "n", " ", "\"", "^", "2", "\"">>}

\* ------------------------------------------------------------ inputs: versions

MaxVersionLen == 3

VersionChars == {"0", "1", ".", "-", "a", "B", "v"}

\* Versions to compare the short strings with.
ComparePool ==
  VersionPool \cup
  { <<"1", ".", "0">>, <<"1", ".", "0", ".", "0">>, <<"1", ".", "1", "-", "a">>, <<"1", ".", "1", ".", "1">>, <<"1", ".", "1", ".", "1", "-", "a">>, <<"1", ".", "1", ".", "1", ".", "B">>, <<"v", "1", ".", "1", ".", "1">>,
    <<"a">>, <<"B">>, <<"1", ".", "a", ".", "1">> }

\* ---------------------------------------------------------- inputs: severities

MaxSeverities == 1

RawScores ==
  {<<"0">>, <<"0", ".", "0">>, <<"0", ".", "1">>, <<"0", ".", "0", "1">>, <<"3", ".", "9">>, <<"3", ".", "9", "9">>, <<"4">>, <<"4", ".", "0">>, <<"6", ".", "9">>,
   <<"7">>, <<"7", ".", "0">>, <<"8", ".", "9">>, <<"8", ".", "9", "9">>, <<"9">>, <<"9", ".", "0">>, <<"9", ".">>, <<"9", ".", "8">>, <<"1", "0">>,
   <<>>, <<".", "5">>, <<"-", "1">>, <<"h", "i", "g", "h">>,
   <<"C", "V", "S", "S", ":", "3", ".", "1", "/", "S", ":", "U", "/", "C", ":", "H", "/", "I", ":", "H", "/", "A", ":", "H">>, <<"C", "V", "S", "S", ":", "3", ".", "1", "/", "S", ":", "U", "/", "C", ":", "H", "/", "I", ":", "H", "/", "A", ":", "N">>, <<"C", "V", "S", "S", ":", "3", ".", "1", "/", "S", ":", "U", "/", "C", ":", "H", "/", "I", ":", "N", "/", "A", ":", "N">>,
   <<"C", "V", "S", "S", ":", "3", ".", "1", "/", "S", ":", "U", "/", "C", ":", "L", "/", "I", ":", "N", "/", "A", ":", "N">>, <<"C", "V", "S", "S", ":", "3", ".", "1", "/", "S", ":", "U", "/", "C", ":", "N", "/", "I", ":", "N", "/", "A", ":", "N">>}

Sev(score) == [type |-> "CVSS_V3", score |-> score]

Affected(severity) == [severity |-> severity, missing |-> {}]

AffectedWithoutSeverity == [severity |-> <<>>, missing |-> {"severity"}]

OSVVuln(severity, affected) == [severity |-> severity, affected |-> affected, missing |-> {}]

OSVVulnWithoutSeverity(affected) ==
  [severity |-> <<>>, affected |-> affected, missing |-> {"severity"}]

\* ------------------------------------------------------ inputs: HTTP requests

Methods == {"GET", "POST", "OPTIONS", "PUT", "DELETE", "HEAD"}

Targets ==
  {<<"/", "m", "c", "p">>, <<"/", "h", "e", "a", "l", "t", "h">>, <<"/">>, <<"/", "m", "c", "p", "?", "x", "=", "1">>, <<"/", "h", "e", "a", "l", "t", "h", "#", "f">>, <<"/", "h", "e", "a", "l", "t", "h", "/">>, <<"/", "M", "C", "P">>,
   <<"/", "u", "n", "k", "n", "o", "w", "n">>, <<"/", "/">>, <<"/", "/", "h", "/", "m", "c", "p">>, <<"*">>, <<"h", "t", "t", "p", ":", "/", "/", "h", "/", "h", "e", "a", "l", "t", "h">>, <<"/", "m", "c", "p", "/">>}

\* The Host header: none, or its value.
Hosts == {<<>>, <<"l", "o", "c", "a", "l", "h", "o", "s", "t">>, <<"l", "o", "c", "a", "l", "h", "o", "s", "t", ":", "3", "0", "0", "0">>, <<"[">>, <<"a", " ", "b">>}

RpcRequest(jsonrpc, id, method, tool) ==
  JObject(<<P(<<"j", "s", "o", "n", "r", "p", "c">>, jsonrpc), P(<<"i", "d">>, id), P(<<"m", "e", "t", "h", "o", "d">>, JString(method)),
            P(<<"p", "a", "r", "a", "m", "s">>, JObject(<<P(<<"n", "a", "m", "e">>, JString(tool))>>))>>)

NoArguments == Without(ParseInput(NumberText, "bogus"), {"text", "manifest_type"})

\* The bodies of the requests, as JSON.parse decodes them, each with the
\* arguments of its tool call.
Bodies ==
  {[body |-> b, args |-> NoArguments] :
     b \in {DecodeError, JNull, JNumber(<<"1">>), JObject(<<>>),
            RpcRequest(JString(<<"1", ".", "0">>), JNumber(<<"1">>), <<"i", "n", "i", "t", "i", "a", "l", "i", "z", "e">>, <<>>),
            RpcRequest(JString(<<"2", ".", "0">>), JNumber(<<"1">>), <<"i", "n", "i", "t", "i", "a", "l", "i", "z", "e">>, <<>>),
            RpcRequest(JString(<<"2", ".", "0">>), JNumber(<<"2">>), <<"t", "o", "o", "l", "s", "/", "l", "i", "s", "t">>, <<>>),
            RpcRequest(JString(<<"2", ".", "0">>), JNumber(<<"3">>), <<"t", "o", "o", "l", "s", "/", "c", "a", "l", "l">>, <<"b", "o", "g", "u", "s">>),
            RpcRequest(JString(<<"2", ".", "0">>), JNumber(<<"3">>), <<"t", "o", "o", "l", "s", "/", "c", "a", "l", "l">>, <<"p", "a", "r", "s", "e", "_", "d", "e", "p", "e", "n", "d", "e", "n", "c", "i", "e", "s">>),
            RpcRequest(JString(<<"2", ".", "0">>), JNull, <<"r", "e", "s", "o", "u", "r", "c", "e", "s", "/", "l", "i", "s", "t">>, <<>>),
            JObject(<<P(<<"j", "s", "o", "n", "r", "p", "c">>, JString(<<"2", ".", "0">>)), P(<<"m", "e", "t", "h", "o", "d">>, JString(<<"t", "o", "o", "l", "s", "/", "c", "a", "l", "l">>))>>)}}
  \cup {[body |-> RpcRequest(JString(<<"2", ".", "0">>), JNumber(<<"3">>), <<"t", "o", "o", "l", "s", "/", "c", "a", "l", "l">>, <<"p", "a", "r", "s", "e", "_", "d", "e", "p", "e", "n", "d", "e", "n", "c", "i", "e", "s">>),
         args |-> ParseInput(Text(<<l>>, DecodeError), "requirements")] : l \in {<<"a", "=", "=", "1">>, <<" ", "\t">>}}
  \cup {[body |-> RpcRequest(JString(<<"2", ".", "0">>), JNumber(<<"4">>), <<"t", "o", "o", "l", "s", "/", "c", "a", "l", "l">>, <<"s", "u", "g", "g", "e", "s", "t", "_", "f", "i", "x", "e", "s">>),
         args |-> a] : a \in {VulnResults(<<>>), NonListInput("string")}}

NoBody == [body |-> DecodeError, args |-> NoArguments]

Request(method, url, host, b) ==
  [method |-> method, url |-> url, host |-> host, body |-> b.body, args |-> b.args]

\* ---------------------------------------------------------------------- system

Call(tool, via, args, now) == [tool |-> tool, via |-> via, args |-> args, now |-> now]

Pending == [kind |-> "pending"]

Routes == {"direct", "server"}

\* The calls of suggestFixes: by a caller of the function, or by a client of the
\* server through the tool suggest_fixes.
InitSuggest ==
  /\ TransportCreated
  /\ result = Pending
  /\ invoked = {}
  /\ \E now \in Clock :
       \/ \E d \in CurrentDeps : \E k \in 0..MaxFixed : \E fx \in [1..k -> VersionPool] :
            call = Call("suggest_fixes", "direct", VersionInput(d, fx), now)
       \/ \E via \in Routes : \E k \in 0..MaxVulns : \E vs \in [1..k -> VulnPool] :
            call = Call("suggest_fixes", via, SeverityInput(vs), now)
       \/ \E via \in Routes : \E k \in 0..MaxEntries : \E es \in [1..k -> EntryPool] :
            call = Call("suggest_fixes", via, VulnResults(es), now)
       \/ \E via \in Routes : \E t \in NonListTypes :
            call = Call("suggest_fixes", via, NonListInput(t), now)

\* The promise of suggestFixes(input) settles.
SuggestFixesDirect ==
  /\ call.tool = "suggest_fixes" /\ call.via = "direct" /\ result = Pending
  /\ result' \in suggestFixes(call.args, call.now)
  /\ invoked' = SuggestionsRun(call.args)
  /\ UNCHANGED call
  /\ UNCHANGED transportVars

\* The server answers the call of the tool suggest_fixes.
CallToolSuggestFixes ==
  /\ call.tool = "suggest_fixes" /\ call.via = "server" /\ result = Pending
  /\ result' \in {Return(r) : r \in CallSuggestFixes(call.args, call.now)}
  /\ invoked' = IF SuggestFixesInputValid(call.args) THEN SuggestionsRun(call.args) ELSE {}
  /\ UNCHANGED call
  /\ UNCHANGED transportVars

NextSuggest == SuggestFixesDirect \/ CallToolSuggestFixes

SpecSuggest == InitSuggest /\ [][NextSuggest]_vars

MaxRepeated == 2

\* The calls of suggestFixes that are repeated, the first at time 0.
InitRepeat ==
  /\ TransportCreated
  /\ result = Pending
  /\ invoked = {}
  /\ \E now \in {0} :
       \/ \E d \in CurrentDeps : \E k \in 0..MaxFixed : \E fx \in [1..k -> VersionPool] :
            call = Call("suggest_fixes", "direct", VersionInput(d, fx), now)
       \/ \E via \in Routes : \E k \in 0..MaxRepeated : \E es \in [1..k -> EntryPool] :
            call = Call("suggest_fixes", via, VulnResults(es), now)
       \/ \E via \in Routes : \E t \in NonListTypes :
            call = Call("suggest_fixes", via, NonListInput(t), now)

\* The readings of the clock from a call on.
Later(now) == {t \in Clock : t >= now}

\* A second call of suggestFixes with the same input settles.
SuggestFixesAgain ==
  /\ call.tool = "suggest_fixes" /\ call.via = "direct" /\ result.kind \in {"return", "throw"}
  /\ \E now \in Later(call.now) : \E r \in suggestFixes(call.args, now) :
       result' = [kind |-> "twice", first |-> result, second |-> r]
  /\ UNCHANGED <<call, invoked>>
  /\ UNCHANGED transportVars

\* The server answers a second call of the tool suggest_fixes with the same
\* arguments.
CallToolSuggestFixesAgain ==
  /\ call.tool = "suggest_fixes" /\ call.via = "server" /\ result.kind \in {"return", "throw"}
  /\ \E now \in Later(call.now) : \E r \in CallSuggestFixes(call.args, now) :
       result' = [kind |-> "twice", first |-> result, second |-> Return(r)]
  /\ UNCHANGED <<call, invoked>>
  /\ UNCHANGED transportVars

NextRepeat ==
  \/ SuggestFixesDirect \/ CallToolSuggestFixes
  \/ SuggestFixesAgain \/ CallToolSuggestFixesAgain

SpecRepeat == InitRepeat /\ [][NextRepeat]_vars

\* The requests that reach the listener of the HTTP server: a POST carries a body.
InitHttp ==
  /\ TransportCreated
  /\ result = Pending
  /\ invoked = {}
  /\ \E now \in Clock : \E method \in Methods : \E url \in Targets : \E host \in Hosts :
       \E b \in IF method = "POST" THEN Bodies ELSE {NoBody} :
         call = Call("request", "http", Request(method, url, host, b), now)

\* The listener of the HTTP server has run on the request.
HttpRequest ==
  /\ call.tool = "request" /\ result = Pending
  /\ result' \in {Return(r) : r \in OnRequest(call.args, call.now)}
  /\ invoked' = {}
  /\ UNCHANGED call
  /\ UNCHANGED transportVars

NextHttp == HttpRequest

SpecHttp == InitHttp /\ [][NextHttp]_vars

\* The transport after createHttpTransport.
InitTransport ==
  /\ TransportCreated
  /\ call = Call("transport", "http", <<>>, 0)
  /\ result = Pending
  /\ invoked = {}

NextTransport ==
  \/ Start
  \/ \E r \in SessionIds : Accept(r)
  \/ \E r \in SessionIds : \E sessionId \in {0} \cup SessionIds : Receive(r, sessionId)
  \/ \E r \in SessionIds : Connected(r)
  \/ \E r \in SessionIds : \E delete \in BOOLEAN : TransportHandled(r, delete)
  \/ Stop
  \/ StopResume
  \/ StopResolved

SpecTransport == InitTransport /\ [][NextTransport]_vars

\* The calls of parseDependencies: by a caller of the function, or by a client
\* of the server through the tool parse_dependencies; and the calls of a tool
\* that the server does not have.
InitParse ==
  /\ TransportCreated
  /\ result = Pending
  /\ invoked = {}
  /\ \E now \in Clock : \E via \in Routes :
       \/ \E m \in LineTypes \cup OtherTypes : \E k \in 1..MaxLines :
            \E ls \in [1..k -> LinePool] :
              call = Call("parse_dependencies", via, ParseInput(Text(ls, DecodeError), m), now)
       \/ \E m \in ManifestTypes : \E t \in TextsOf(m) \cup BlankTexts :
            call = Call("parse_dependencies", via, ParseInput(t, m), now)
       \/ \E k \in 1..MaxBlockLines : \E ls \in [1..k -> BlockLinePool] :
            call = Call("parse_dependencies", via, ParseInput(Text(ls, DecodeError), "yarn-lock"), now)
       \/ \E m \in ManifestTypes \cup OtherTypes : \E t \in BlankTexts \cup {NumberText} :
            \E fields \in SUBSET {"text", "manifest_type"} :
              call = Call("parse_dependencies", via, Without(ParseInput(t, m), fields), now)
       \/ /\ via = "server"
          /\ \E m \in ManifestTypes : \E t \in BlankTexts :
               call = Call("parse_manifest", via, ParseInput(t, m), now)

\* The promise of parseDependencies(input) settles.
ParseDependenciesDirect ==
  /\ call.tool = "parse_dependencies" /\ call.via = "direct" /\ result = Pending
  /\ result' = parseDependencies(call.args, call.now)
  /\ invoked' = ParsersRun(call.args)
  /\ UNCHANGED call
  /\ UNCHANGED transportVars

\* The server answers the call of the tool parse_dependencies.
CallToolParseDependencies ==
  /\ call.tool = "parse_dependencies" /\ call.via = "server" /\ result = Pending
  /\ result' = Return(CallParseDependencies(call.args, call.now))
  /\ invoked' = IF ParseDependenciesInputValid(call.args) THEN ParsersRun(call.args) ELSE {}
  /\ UNCHANGED call
  /\ UNCHANGED transportVars

\* The server answers the call of a tool it does not have.
CallToolUnknown ==
  /\ call.tool \notin {"parse_dependencies", "osv_query", "suggest_fixes"}
  /\ call.via = "server" /\ result = Pending
  /\ result' = Return(CallUnknownTool(call.tool, call.now))
  /\ invoked' = {}
  /\ UNCHANGED call
  /\ UNCHANGED transportVars

NextParse == ParseDependenciesDirect \/ CallToolParseDependencies \/ CallToolUnknown

SpecParse == InitParse /\ [][NextParse]_vars

\* The calls of compareVersions(a, b): a short string against a version of the
\* pool, in either order.
InitCompare ==
  /\ TransportCreated
  /\ result = Pending
  /\ invoked = {}
  /\ \E k \in 0..MaxVersionLen : \E x \in [1..k -> VersionChars] : \E y \in ComparePool :
       \/ call = Call("compareVersions", "direct", [a |-> x, b |-> y], 0)
       \/ call = Call("compareVersions", "direct", [a |-> y, b |-> x], 0)

\* compareVersions(a, b) returns.
CompareVersions ==
  /\ call.tool = "compareVersions" /\ result = Pending
  /\ result' = Return(compareVersions(call.args.a, call.args.b))
  /\ invoked' = {}
  /\ UNCHANGED call
  /\ UNCHANGED transportVars

NextCompare == CompareVersions

SpecCompare == InitCompare /\ [][NextCompare]_vars

\* The vulnerabilities of an answer of the advisory database: with or without a
\* severity list of their own, with at most one affected package.
InitSeverity ==
  /\ TransportCreated
  /\ result = Pending
  /\ invoked = {}
  /\ \E af \in {<<>>, <<AffectedWithoutSeverity>>} \cup {<<Affected(<<Sev(s)>>)>> : s \in RawScores} :
       \/ \E k \in 0..MaxSeverities : \E raw \in [1..k -> RawScores] :
            call = Call("severity", "direct", OSVVuln([i \in 1..k |-> Sev(raw[i])], af), 0)
       \/ call = Call("severity", "direct", OSVVulnWithoutSeverity(af), 0)

\* queryOSV resolves the severity of one vulnerability.
ResolveSeverity ==
  /\ call.tool = "severity" /\ result = Pending
  /\ result' = Return(ProcessedSeverity(call.args))
  /\ invoked' = {}
  /\ UNCHANGED call
  /\ UNCHANGED transportVars

NextSeverity == ResolveSeverity

SpecSeverity == InitSeverity /\ [][NextSeverity]_vars

\* ------------------------------------------------------ claims: suggestFixes

\* suggestFixes has resolved to a success envelope.
SuggestSucceeded ==
  /\ call.tool = "suggest_fixes" /\ call.via = "direct"
  /\ result.kind = "return" /\ result.value.ok

Suggestions == result.value.data.suggestions

\* The input entries that a suggestion can stem from (entries of one package
\* name are equal in every input of the model).
EntriesOf(s) ==
  {e \in Range(call.args.vuln_results) : ~Skipped(e) /\ e.dependency.name = s.package}

FixedSet(e) ==
  UNION {Range(e.vulnerabilities[i].fixed_versions) : i \in 1..Len(e.vulnerabilities)}

CurrentOf(e) ==
  IF Has(e.dependency, "version") /\ e.dependency.version # <<>>
    THEN e.dependency.version ELSE Unknown

Greater(e) == {f \in FixedSet(e) : compareVersions(f, CurrentOf(e)) > 0}

\* s carries the minimum fixed version of e that is strictly greater than the
\* current version.
MinimumGreater(s, e) ==
  /\ s.suggested_version \in Greater(e)
  /\ \A g \in Greater(e) : ~(compareVersions(g, s.suggested_version) < 0)

TransitiveOn(S) ==
  \A a, b, c \in S :
    compareVersions(a, b) <= 0 /\ compareVersions(b, c) <= 0 => compareVersions(a, c) <= 0

\* C1 as stated: whenever the current version parses and some fixed version is
\* strictly greater than it, suggested_version is a strictly greater fixed version
\* below which no other strictly greater fixed version compares.
C1_MinimumGreaterAlways ==
  SuggestSucceeded =>
    \A i \in 1..Len(Suggestions) : \A e \in EntriesOf(Suggestions[i]) :
      parseVersion(CurrentOf(e)).ok /\ Greater(e) # {} => MinimumGreater(Suggestions[i], e)

\* C1 as amended: the same, for the fixed-version sets on which compareVersions
\* is transitive (every set whose versions all parse, or all fail to parse).
C1_MinimumGreaterWhenTransitive ==
  SuggestSucceeded =>
    \A i \in 1..Len(Suggestions) : \A e \in EntriesOf(Suggestions[i]) :
      parseVersion(CurrentOf(e)).ok /\ Greater(e) # {} /\ TransitiveOn(FixedSet(e))
        => MinimumGreater(Suggestions[i], e)

\* C1 witness: current 1, fixed versions 10, 2, 1.1 in that order, suggestion 1.1.
C1_Witness ==
  /\ SuggestSucceeded
  /\ Len(call.args.vuln_results) = 1
  /\ call.args.vuln_results[1].dependency.version = <<"1">>
  /\ Len(call.args.vuln_results[1].vulnerabilities) = 1
  /\ call.args.vuln_results[1].vulnerabilities[1].fixed_versions
       = <<<<"1", "0">>, <<"2">>, <<"1", ".", "1">>>>
  /\ Suggestions[1].suggested_version = <<"1", ".", "1">>

\* C2: in every emitted suggestion, action is upgrade iff suggested_version is
\* not null, review otherwise, and never investigate.
C2_UpgradeIffSuggested ==
  SuggestSucceeded =>
    \A i \in 1..Len(Suggestions) :
      /\ Suggestions[i].action = "upgrade" <=> Suggestions[i].suggested_version # NULL
      /\ Suggestions[i].action = "review" <=> Suggestions[i].suggested_version = NULL
      /\ Suggestions[i].action # "investigate"

SeverityRank(label) ==
  CASE label = "CRITICAL" -> 5 [] label = "HIGH" -> 4 [] label = "MEDIUM" -> 3
    [] label = "LOW" -> 2 [] label = "NONE" -> 1 [] OTHER -> 0

\* The labels that the vulnerabilities of e carry (absent and null carry none).
LabelsOf(e) ==
  {toUpperCase(e.vulnerabilities[i].severity) :
     i \in {k \in 1..Len(e.vulnerabilities) :
              Has(e.vulnerabilities[k], "severity") /\ e.vulnerabilities[k].severity # "null"}}

\* C3: the severity of a suggestion is the most severe label of its entry under
\* CRITICAL > HIGH > MEDIUM > LOW > NONE > UNKNOWN, UNKNOWN when none is
\* recognised; its priority is critical, high, medium for the first three labels
\* and low otherwise; an entry with an absent severity still gets its suggestion.
C3_MostSevereLabel ==
  /\ SuggestSucceeded =>
       \A i \in 1..Len(Suggestions) : \A e \in EntriesOf(Suggestions[i]) :
         LET s == Suggestions[i]
             ranks == {SeverityRank(l) : l \in LabelsOf(e)} \cup {0}
         IN /\ \A r \in ranks : r <= SeverityRank(s.severity)
            /\ SeverityRank(s.severity) \in ranks
            /\ SeverityRank(s.severity) = 0 => s.severity = "UNKNOWN"
            /\ s.severity \in LabelsOf(e) \cup {"UNKNOWN"}
            /\ s.priority = (CASE s.severity = "CRITICAL" -> "critical"
                               [] s.severity = "HIGH" -> "high"
                               [] s.severity = "MEDIUM" -> "medium"
                               [] OTHER -> "low")
  /\ call.tool = "suggest_fixes" /\ call.via = "direct" /\ result.kind = "throw" =>
       \E i \in 1..Len(call.args.vuln_results) :
         LET e == call.args.vuln_results[i]
         IN \/ ~Has(e, "dependency")
            \/ \E k \in 1..Len(e.vulnerabilities) :
                 e.vulnerabilities[k].missing \ {"severity"} # {}

\* C3 witness: vulnerabilities LOW and CRITICAL, in that order, give CRITICAL.
C3_Witness ==
  /\ SuggestSucceeded
  /\ Len(Suggestions) = 1
  /\ LET vs == call.args.vuln_results[1].vulnerabilities
     IN /\ Len(vs) = 2
        /\ vs[1].severity = "LOW" /\ vs[2].severity = "CRITICAL"
        /\ Suggestions[1].severity = "CRITICAL" /\ Suggestions[1].priority = "critical"

\* The most severe label of an entry mapped to its priority tier.
TierOf(e) ==
  LET top == CHOOSE r \in {SeverityRank(l) : l \in LabelsOf(e)} \cup {0} :
               \A q \in {SeverityRank(l) : l \in LabelsOf(e)} \cup {0} : q <= r
  IN CASE top = 5 -> "critical" [] top = 4 -> "high" [] top = 3 -> "medium" [] OTHER -> "low"

\* The vulnerability list of the entry is present and not empty.
NonEmpty(e) == Has(e, "vulnerabilities") /\ Len(e.vulnerabilities) > 0

\* The package names of the non-empty entries of tier t, in input order.
RECURSIVE InputNamesOfTier(_, _)
InputNamesOfTier(entries, t) ==
  IF entries = <<>> THEN <<>>
  ELSE (IF NonEmpty(Head(entries)) /\ TierOf(Head(entries)) = t
          THEN <<Head(entries).dependency.name>> ELSE <<>>)
       \o InputNamesOfTier(Tail(entries), t)

\* The packages of the suggestions of priority t, in output order.
RECURSIVE OutputNamesOfTier(_, _)
OutputNamesOfTier(suggestions, t) ==
  IF suggestions = <<>> THEN <<>>
  ELSE (IF Head(suggestions).priority = t THEN <<Head(suggestions).package>> ELSE <<>>)
       \o OutputNamesOfTier(Tail(suggestions), t)

\* C4: the suggestions are ordered critical, high, medium, low, and within one
\* priority they keep the relative order of their entries in vuln_results.
C4_PriorityOrderStable ==
  SuggestSucceeded =>
    /\ \A i, j \in 1..Len(Suggestions) :
         i < j => PriorityRank(Suggestions[i].priority) <= PriorityRank(Suggestions[j].priority)
    /\ \A t \in Priorities :
         OutputNamesOfTier(Suggestions, t) = InputNamesOfTier(call.args.vuln_results, t)

\* C4 witness: entries d (low), a (critical), b (low) come out as a, d, b.
C4_Witness ==
  /\ SuggestSucceeded
  /\ Len(call.args.vuln_results) = 3
  /\ [i \in 1..3 |-> call.args.vuln_results[i].dependency.name] = <<"d", "a", "b">>
  /\ [i \in 1..Len(Suggestions) |-> Suggestions[i].package] = <<"a", "d", "b">>

\* The input has the shape of SuggestFixesInput: a list of entries with a
\* dependency and a vulnerability list whose members carry fixed_versions and
\* aliases.
WellTyped(args) ==
  /\ args.vuln_results_type = "array"
  /\ \A i \in 1..Len(args.vuln_results) :
       /\ args.vuln_results[i].missing = {}
       /\ \A k \in 1..Len(args.vuln_results[i].vulnerabilities) :
            args.vuln_results[i].vulnerabilities[k].missing \subseteq {"severity"}

\* C5: one suggestion per entry with a non-empty vulnerability list and none for
\* the others; summary.total is the number of suggestions, by_priority counts
\* them per tier, the four counts sum to total (all zero, ok:true, for []).
C5_OnePerNonEmptyEntry ==
  call.tool = "suggest_fixes" /\ call.via = "direct" /\ result # Pending
    /\ WellTyped(call.args) =>
    /\ result.kind = "return" /\ result.value.ok
    /\ LET entries == call.args.vuln_results
           summary == result.value.data.summary
       IN /\ Len(Suggestions) = Cardinality({i \in 1..Len(entries) : NonEmpty(entries[i])})
          /\ \A e \in Range(entries) :
               Cardinality({i \in 1..Len(Suggestions) :
                              NonEmpty(e) /\ Suggestions[i].package = e.dependency.name})
                 = Cardinality({i \in 1..Len(entries) : NonEmpty(e) /\ entries[i] = e})
          /\ summary.total = Len(Suggestions)
          /\ DOMAIN summary.by_priority = Priorities
          /\ \A t \in Priorities :
               summary.by_priority[t]
                 = Cardinality({i \in 1..Len(Suggestions) : Suggestions[i].priority = t})
          /\ summary.by_priority["critical"] + summary.by_priority["high"]
               + summary.by_priority["medium"] + summary.by_priority["low"] = summary.total

\* C5 witness: three entries, the second with an empty vulnerability list, give
\* two suggestions of different tiers.
C5_Witness ==
  /\ SuggestSucceeded
  /\ Len(call.args.vuln_results) = 3
  /\ ~NonEmpty(call.args.vuln_results[2])
  /\ NonEmpty(call.args.vuln_results[1]) /\ NonEmpty(call.args.vuln_results[3])
  /\ result.value.data.summary.total = 2
  /\ result.value.data.summary.by_priority["critical"] = 1
  /\ result.value.data.summary.by_priority["low"] = 1

\* C9: parseDependencies and suggestFixes never raise: every call settles with a
\* success or a failure envelope.
C9_NeverRaises ==
  call.via = "direct" /\ result # Pending => result.kind = "return"


\* --------------------------------------------------- claims: parseDependencies

\* The envelope that the caller of the operation holds.
Envelope == IF call.via = "direct" THEN result.value ELSE result.value.content

Answered == result # Pending /\ result.kind = "return"

Refused(code) == Answered /\ ~Envelope.ok /\ Envelope.error.code = code

ParseCall == call.tool = "parse_dependencies"

\* The arguments violate the input contract of the tool.
ContractViolated ==
  IF ParseCall
    THEN \/ ~Has(call.args, "text")
         \/ ~Has(call.args, "manifest_type")
         \/ call.args.manifest_type \notin ManifestTypes
    ELSE call.tool = "suggest_fixes" /\ call.args.vuln_results_type # "array"

\* C6: a call whose arguments violate the input contract (a manifest_type that
\* is none of the seven dialects, a missing required field, vuln_results that
\* is no list) ends in a failure envelope with code INVALID_INPUT, and no
\* parser and no suggestion logic has run; directly and through the server.
C6_ContractViolationIsInvalidInput ==
  result # Pending /\ ContractViolated => Refused("INVALID_INPUT") /\ invoked = {}

\* Every character of the text is whitespace.
OnlyWhitespace(text) ==
  /\ text.type = "string"
  /\ \A i \in 1..Len(text.lines) : \A j \in 1..Len(text.lines[i]) :
       text.lines[i][j] \in WhitespaceChars

\* The text of a call for one of the seven dialects is empty or whitespace.
BlankCall ==
  /\ ParseCall /\ call.args.missing = {}
  /\ call.args.manifest_type \in ManifestTypes
  /\ OnlyWhitespace(call.args.text)

\* C7: for every dialect, parseDependencies on a text that is empty or only
\* whitespace returns ok:false with code INVALID_INPUT and runs no parser.
C7_BlankTextIsInvalidInput ==
  result # Pending /\ BlankCall => Refused("INVALID_INPUT") /\ invoked = {}

C7_Witness ==
  /\ BlankCall /\ Refused("INVALID_INPUT")
  /\ call.via = "direct" /\ call.args.manifest_type = "requirements"
  /\ \E i \in 1..Len(call.args.text.lines) : call.args.text.lines[i] # <<>>

\* C8: parseDependencies fails with PARSE_ERROR only when the decoder of the
\* dialect rejects the text; a text that the decoder accepts gives a success.
C8_ParseErrorOnlyFromDecoder ==
  ParseCall /\ call.via = "direct" /\ Refused("PARSE_ERROR")
    => call.args.text.decoded.t = "error"

\* The ecosystem fixed for a dialect.
DialectEcosystem(manifest_type) ==
  CASE manifest_type \in {"package-lock", "pnpm-lock", "yarn-lock"} -> "npm"
    [] manifest_type \in {"requirements", "poetry-lock"} -> "PyPI"
    [] manifest_type = "go-mod" -> "Go"
    [] manifest_type = "cargo-lock" -> "crates.io"

\* The call was for one of the seven dialects and succeeded.
Parsed7 ==
  /\ ParseCall /\ Answered /\ Envelope.ok
  /\ call.args.manifest_type \in ManifestTypes

Dependencies == Envelope.data.dependencies

\* C10: every Dependency that the parser of a dialect emits has the ecosystem
\* fixed for the dialect.
C10_EcosystemOfDialect ==
  Parsed7 => \A i \in 1..Len(Dependencies) :
               Dependencies[i].ecosystem = DialectEcosystem(call.args.manifest_type)

C10_Witness ==
  /\ Parsed7 /\ call.args.manifest_type = "go-mod"
  /\ Len(Dependencies) = 2


\* ----------------------------------------------------- claims: compareVersions

Compared == call.tool = "compareVersions" /\ result # Pending

ParsedA == parseVersion(call.args.a)

ParsedB == parseVersion(call.args.b)

BothParse == ParsedA.ok /\ ParsedB.ok

\* C11: on two versions that both parse, the sign of compareVersions(a, b) is
\* the negation of the sign of compareVersions(b, a), and compareVersions(a, a)
\* is 0.
C11_Antisymmetric ==
  Compared /\ BothParse
    => /\ Sign(result.value) = 0 - Sign(compareVersions(call.args.b, call.args.a))
       /\ call.args.a = call.args.b => result.value = 0

C11_Witness ==
  /\ Compared /\ BothParse /\ result.value < 0
  /\ Truthy(ParsedA.prerelease) /\ Truthy(ParsedB.prerelease)
  /\ ParsedA.major = ParsedB.major /\ ParsedA.minor = ParsedB.minor
  /\ ParsedA.patch = ParsedB.patch

SameRelease ==
  /\ BothParse
  /\ ParsedA.major = ParsedB.major /\ ParsedA.minor = ParsedB.minor
  /\ ParsedA.patch = ParsedB.patch

\* C12: of two versions that parse to the same major, minor and patch, the one
\* with a prerelease tag compares below the one without.
C12_PrereleaseBelowRelease ==
  Compared /\ SameRelease
    => /\ Truthy(ParsedA.prerelease) /\ ~Truthy(ParsedB.prerelease) => result.value < 0
       /\ ~Truthy(ParsedA.prerelease) /\ Truthy(ParsedB.prerelease) => result.value > 0

C12_Witness ==
  /\ Compared /\ SameRelease /\ result.value < 0
  /\ call.args.a = <<"1", "-", "a">> /\ call.args.b = <<"1", ".", "0", ".", "0">>

\* The UTF-16 code unit of a character of the model.
CodeUnit(c) ==
  CASE c = "-" -> 45 [] c = "." -> 46
    [] c \in DigitChars -> 48 + DigitVal(c)
    [] c = "B" -> 66
    [] c = "a" -> 97 [] c = "k" -> 107 [] c = "n" -> 110 [] c = "o" -> 111
    [] c = "u" -> 117 [] c = "v" -> 118 [] c = "w" -> 119

\* The comparison of two strings by their code units: -1, 0 or 1.
RECURSIVE RawCompare(_, _)
RawCompare(a, b) ==
  IF a = <<>> /\ b = <<>> THEN 0
  ELSE IF a = <<>> THEN -1
  ELSE IF b = <<>> THEN 1
  ELSE IF CodeUnit(Head(a)) < CodeUnit(Head(b)) THEN -1
  ELSE IF CodeUnit(Head(a)) > CodeUnit(Head(b)) THEN 1
  ELSE RawCompare(Tail(a), Tail(b))

\* C13: when one of the two strings does not parse, compareVersions is the raw
\* lexicographic comparison of the two strings, and is 0 only for identical
\* strings.
C13_FallbackIsRawLexicographic ==
  Compared /\ ~BothParse
    => /\ Sign(result.value) = RawCompare(call.args.a, call.args.b)
       /\ result.value = 0 => call.args.a = call.args.b


\* -------------------------------------------------------- claims: package-lock

\* The install path after its last node_modules/ segment: the own name of the
\* package installed there.
OwnName(path) ==
  LET n == Len(NodeModules)
      at == {i \in 1..(Len(path) - n + 1) : SubSeq(path, i, i + n - 1) = NodeModules}
  IN IF at = {} THEN path
     ELSE Drop(path, (CHOOSE i \in at : \A j \in at : j <= i) + n - 1)

PackagesOf(text) == Get(text.decoded, <<"p", "a", "c", "k", "a", "g", "e", "s">>)

\* The members of the packages map that are not the root and carry a version.
VersionedPackages(text) ==
  LET kids == PackagesOf(text).kids
  IN SelectSeqBy(kids, {e \in Range(kids) :
                          e.k # <<>> /\ e.v.t = "object" /\ JTruthy(Get(e.v, <<"v", "e", "r", "s", "i", "o", "n">>))})

\* A package-lock text with a packages map of objects was parsed.
PackagesParsed ==
  /\ ParseCall /\ call.args.missing = {} /\ call.args.manifest_type = "package-lock"
  /\ Answered
  /\ call.args.text.type = "string" /\ ~BlankText(call.args.text.lines)
  /\ call.args.text.decoded.t = "object" /\ PackagesOf(call.args.text).t = "object"
  /\ Len(PackagesOf(call.args.text).kids) > 0
  /\ \A e \in Range(PackagesOf(call.args.text).kids) : e.v.t = "object"

\* C14: from a packages map, the output has one npm Dependency per key whose
\* entry carries a version, never the empty root key, each named by the own
\* name of the package at the install path.
C14_OwnNamePerVersionedKey ==
  PackagesParsed
    => /\ Envelope.ok
       /\ LET expected == VersionedPackages(call.args.text)
          IN /\ Len(Dependencies) = Len(expected)
             /\ \A i \in 1..Len(expected) :
                  /\ Dependencies[i].ecosystem = "npm"
                  /\ Dependencies[i].name = OwnName(expected[i].k)
                  /\ Dependencies[i].version = Copied(Get(expected[i].v, <<"v", "e", "r", "s", "i", "o", "n">>))


\* ----------------------------------------------------------- claims: yarn-lock

\* A yarn-lock text was parsed.
YarnParsed == Parsed7 /\ call.args.manifest_type = "yarn-lock"

Lines == call.args.text.lines

CommentOrBlank(line) == (line # <<>> /\ Head(line) = "#") \/ trim(line) = <<>>

Indented(line) == line # <<>> /\ Head(line) \in {" ", "\t"}

\* The declaration lines of the text: unindented, no comment, not blank.
Declarations == {i \in 1..Len(Lines) : ~CommentOrBlank(Lines[i]) /\ ~Indented(Lines[i])}

\* The version lines of the text: indented `version <value>`.
VersionLines ==
  {j \in 1..Len(Lines) :
     ~CommentOrBlank(Lines[j]) /\ Indented(Lines[j]) /\ VersionLine(Lines[j]) # <<>>}

\* The values of the version lines in the block of the declaration at line i.
BlockVersions(i) ==
  {VersionLine(Lines[j]) : j \in {j \in VersionLines :
                                    j > i /\ \A k \in (i + 1)..j : k \notin Declarations}}

BlockNames(i) == Range(DeclaredNames(Lines[i]))

Emitted == {<<Dependencies[i].name, Dependencies[i].version>> : i \in 1..Len(Dependencies)}

\* C15: a declaration block contributes dependencies exactly when a version
\* line lies between its declaration line and the next declaration line or the
\* end of the text; the final block is flushed, a block without a version line
\* is not emitted.
C15_BlockEmittedIffVersioned ==
  YarnParsed
    => /\ \A i \in 1..Len(Dependencies) :
            \E d \in Declarations :
              /\ Dependencies[i].name \in BlockNames(d)
              /\ Dependencies[i].version \in BlockVersions(d)
       /\ \A d \in Declarations :
            BlockNames(d) # {} /\ BlockVersions(d) # {}
              => \E n \in BlockNames(d) : \E v \in BlockVersions(d) : <<n, v>> \in Emitted

\* The final block of a text is emitted, an earlier block without a version
\* line is not.
C15_Witness ==
  /\ YarnParsed /\ Len(Lines) = 2
  /\ 1 \in Declarations /\ 2 \in VersionLines
  /\ Len(Dependencies) = 2

\* C16: each name declared by an emitted block is in the output with the
\* version of the block, and no two entries of the output have the same name
\* and version.
C16_EachNameOnce ==
  YarnParsed
    => /\ \A d \in Declarations :
            BlockVersions(d) # {}
              => \A n \in BlockNames(d) : \E v \in BlockVersions(d) : <<n, v>> \in Emitted
       /\ \A i, j \in 1..Len(Dependencies) :
            /\ Dependencies[i].name = Dependencies[j].name
            /\ Dependencies[i].version = Dependencies[j].version
            => i = j

\* A block that declares one name twice is emitted once.
C16_Witness ==
  /\ YarnParsed /\ Len(Lines) = 2
  /\ Len(DeclaredNames(Lines[1])) = 2 /\ Cardinality(BlockNames(1)) = 1
  /\ Len(Dependencies) = 1


\* -------------------------------------------------------- claims: requirements

RequirementsParsed == Parsed7 /\ call.args.manifest_type = "requirements"

\* Blank lines, comments and options.
Passed(line) ==
  \/ trim(line) = <<>>
  \/ Head(trim(line)) \in {"#", "-"}

\* The characters that end the package name of a requirement.
NameStops == WhitespaceChars \cup {"=", ">", "<", "~", "!", ";", "#", "@"}

\* The requirement of a line without its extras.
Requirement(line) == RemoveExtras(trim(line))

\* The full package name of a requirement.
FullName(line) == Take(Requirement(line), PrefixNotIn(Requirement(line), NameStops))

\* What follows the name.
AfterName(line) == trimStart(Drop(Requirement(line), Len(FullName(line))))

\* The first of the operators, in the order == >= <= ~= != > <, that follows
\* the name; <<>> when none does.
OperatorOf(line) ==
  LET at == {k \in 1..Len(RequirementOperators) :
               startsWith(AfterName(line), RequirementOperators[k])}
  IN IF at = {} THEN <<>> ELSE RequirementOperators[CHOOSE k \in at : \A m \in at : k <= m]

\* The text that follows the operator.
VersionText(line) ==
  LET rest == trimStart(Drop(AfterName(line), Len(OperatorOf(line))))
  IN Take(rest, PrefixNotIn(rest, VersionStop))

ExpectedRequirement(line) ==
  [ecosystem |-> "PyPI", name |-> toLowerCase(FullName(line)),
   version |-> IF OperatorOf(line) # <<>> /\ VersionText(line) # <<>>
                 THEN VersionText(line) ELSE <<"*">>]

\* The lines that are requirements: not blank, no comment, no option.
Requirements == SelectSeqBy(Lines, {l \in Range(Lines) : ~Passed(l)})

\* Every requirement of the text begins with a letter or a digit.
PlainRequirements ==
  \A i \in 1..Len(Requirements) :
    Head(trim(Requirements[i])) \in Range(LowerChars) \cup Range(UpperChars) \cup DigitChars

\* C17: blank lines, comments and options emit nothing; every other line emits
\* one PyPI Dependency, in line order, with the full package name lowercased
\* and the version that follows the first operator, or '*' without one.
C17_OnePerRequirement ==
  RequirementsParsed /\ PlainRequirements
    => Dependencies = [i \in 1..Len(Requirements) |-> ExpectedRequirement(Requirements[i])]


\* -------------------------------------------------------------- claims: go-mod

GoModParsed == Parsed7 /\ call.args.manifest_type = "go-mod"

\* The first word of s, and what follows it and the white space behind it.
FirstWord(s) == Take(s, PrefixNotIn(s, WhitespaceChars))

AfterWord(s) == trimStart(Drop(s, Len(FirstWord(s))))

GoLine(i) == trim(Lines[i])

BlockOpen(i) == GoLine(i) = RequireOpen

BlockClose(i) == GoLine(i) = <<")">>

\* Line i is a single-line require.
SingleRequire(i) == ~BlockOpen(i) /\ FirstWord(GoLine(i)) = <<"r", "e", "q", "u", "i", "r", "e">>

\* Line i lies between a `require (` line and the next `)` line.
InsideRequire(i) ==
  /\ ~BlockOpen(i) /\ ~BlockClose(i)
  /\ GoLine(i) # <<>> /\ ~startsWith(GoLine(i), <<"/", "/">>)
  /\ \E j \in 1..(i - 1) : BlockOpen(j) /\ \A k \in (j + 1)..(i - 1) : ~BlockClose(k)

\* The `name version` part of line i.
NameAndVersion(i) == IF SingleRequire(i) THEN AfterWord(GoLine(i)) ELSE GoLine(i)

\* The version word without a // comment behind it and without one leading v.
OneVersion(word) ==
  LET at == {k \in 1..(Len(word) - 1) : word[k] = "/" /\ word[k + 1] = "/"}
      bare == IF at = {} THEN word ELSE Take(word, (CHOOSE k \in at : \A m \in at : k <= m) - 1)
  IN IF bare # <<>> /\ Head(bare) = "v" THEN Tail(bare) ELSE bare

\* The lines that require a module: a name and a version in a single-line
\* require or inside a require block.
Required ==
  {i \in 1..Len(Lines) :
     /\ SingleRequire(i) \/ InsideRequire(i)
     /\ FirstWord(AfterWord(NameAndVersion(i))) # <<>>}

ExpectedModule(i) ==
  [ecosystem |-> "Go", name |-> FirstWord(NameAndVersion(i)),
   version |-> OneVersion(FirstWord(AfterWord(NameAndVersion(i))))]

\* C18: a Dependency is emitted for each single-line require and each
\* `name version` line of a require block and for no other line; its version
\* has one leading v removed and no part of a // comment.
C18_OnePerRequire ==
  GoModParsed
    => Dependencies = Flatten([i \in 1..Len(Lines) |->
                                 IF i \in Required THEN <<ExpectedModule(i)>> ELSE <<>>])


\* -------------------------------------------------- claims: the dependency list

\* The output came from the walk of the nested dependencies of a package-lock.
NestedWalk ==
  /\ call.args.manifest_type = "package-lock"
  /\ JTruthy(GetOptional(call.args.text.decoded, <<"d", "e", "p", "e", "n", "d", "e", "n", "c", "i", "e", "s">>))

\* C19: but for the walk of the nested dependencies of a package-lock, the list
\* a parser returns has no two entries with the same name and version.
C19_NoDuplicates ==
  Parsed7 /\ ~NestedWalk
    => \A i, j \in 1..Len(Dependencies) :
         /\ Dependencies[i].name = Dependencies[j].name
         /\ Dependencies[i].version = Dependencies[j].version
         => i = j

\* parseDependencies succeeded.
ParseSucceeded == ParseCall /\ Answered /\ Envelope.ok

NoneFound == "No dependencies found in manifest"

\* C20: a success of parseDependencies has count equal to the length of
\* dependencies, and the warning "No dependencies found in manifest" exactly
\* when dependencies is empty.
C20_CountAndWarning ==
  ParseSucceeded
    => /\ Envelope.data.count = Len(Dependencies)
       /\ NoneFound \in Range(Envelope.meta.warnings) <=> Len(Dependencies) = 0

C20_Witness ==
  /\ ParseSucceeded /\ call.via = "server"
  /\ Len(Dependencies) = 0 /\ Envelope.meta.warnings = <<NoneFound>>


\* ---------------------------------------------------------- claims: severities

Resolved == call.tool = "severity" /\ result.kind = "return"

Score == result.value.severity_score

\* score >= k and score < k, k a whole number.
AtLeast(k) == Score[1] >= k * Score[2]

Below(k) == Score[1] < k * Score[2]

LabelIs(label) == result.value.severity = label

\* C21: the severity label of a score is CRITICAL from 9.0, HIGH from 7.0 to
\* below 9.0, MEDIUM from 4.0 to below 7.0, LOW above 0 and below 4.0, NONE at 0,
\* and absent when there is no score.
C21_LabelOfScore ==
  Resolved =>
    IF Score = NULL THEN LabelIs(NULL)
    ELSE /\ AtLeast(9) => LabelIs(<<"C", "R", "I", "T", "I", "C", "A", "L">>)
         /\ AtLeast(7) /\ Below(9) => LabelIs(<<"H", "I", "G", "H">>)
         /\ AtLeast(4) /\ Below(7) => LabelIs(<<"M", "E", "D", "I", "U", "M">>)
         /\ Score[1] > 0 /\ Below(4) => LabelIs(<<"L", "O", "W">>)
         /\ Score[1] = 0 => LabelIs(<<"N", "O", "N", "E">>)

\* A score of exactly 7.0, the highest of two, is HIGH.
C21_Witness ==
  /\ Resolved /\ Score # NULL /\ Score[1] = 7 * Score[2] /\ LabelIs(<<"H", "I", "G", "H">>)
  /\ Len(call.args.severity) = 1 /\ Len(call.args.affected) = 1

\* -------------------------------------------------------- claims: determinism

Twice == call.tool = "suggest_fixes" /\ result.kind = "twice"

\* The envelope of an outcome with the time of the call set aside.
Timeless(r) ==
  IF r.kind = "throw" THEN r
  ELSE IF call.via = "direct"
    THEN Return([r.value EXCEPT !.meta = [r.value.meta EXCEPT !.retrieved_at = 0]])
    ELSE Return([r.value EXCEPT !.content =
                   [r.value.content EXCEPT !.meta = [r.value.content.meta EXCEPT !.retrieved_at = 0]]])

\* The input gives every sort of fixed versions a transitive comparator.
SortsDefined ==
  \/ call.args.vuln_results_type # "array"
  \/ \A e \in Range(call.args.vuln_results) : Skipped(e) \/ Throws(e) \/ TransitiveOn(FixedSet(e))

Served == call.tool = "request" /\ result.kind = "return"

\* The path of the request target: the target up to its query or fragment.
RequestPath ==
  Take(call.args.url,
       Cardinality({i \in 1..Len(call.args.url) :
                      \A j \in 1..i : call.args.url[j] \notin {"?", "#"}}))

OneResponse(status) ==
  /\ Len(result.value.sent) = 1 /\ ~result.value.rejected
  /\ result.value.sent[1].status = status

\* C23: every request gets exactly one response: 204 with
\* Access-Control-Allow-Origin '*' for OPTIONS, the JSON-RPC reply for POST /mcp,
\* 200 for GET /health, 405 for another method on /mcp or /health, 404 for
\* another path.
C23_OneResponseByMethodAndPath ==
  Served =>
    LET method == call.args.method
        known == RequestPath \in {<<"/", "m", "c", "p">>, <<"/", "h", "e", "a", "l", "t", "h">>}
    IN  /\ Len(result.value.sent) = 1 /\ ~result.value.rejected
        /\ method = "OPTIONS" =>
             OneResponse(204) /\ "Access-Control-Allow-Origin: *" \in result.value.headers
        /\ method = "POST" /\ RequestPath = <<"/", "m", "c", "p">> =>
             result.value.sent[1].kind \in {"rpc result", "rpc error", "server error"}
        /\ method = "GET" /\ RequestPath = <<"/", "h", "e", "a", "l", "t", "h">> => OneResponse(200)
        /\ method \notin {"OPTIONS", "POST"} /\ RequestPath = <<"/", "m", "c", "p">> => OneResponse(405)
        /\ method \notin {"OPTIONS", "GET"} /\ RequestPath = <<"/", "h", "e", "a", "l", "t", "h">> => OneResponse(405)
        /\ method # "OPTIONS" /\ ~known => OneResponse(404)

\* ------------------------------------------------- claims: the fallback targets

\* s carries a fixed version of e above which no fixed version compares.
HighestFixed(s, e) ==
  /\ s.suggested_version \in FixedSet(e)
  /\ \A g \in FixedSet(e) : compareVersions(g, s.suggested_version) <= 0

\* s carries a fixed version of e below which no fixed version compares.
LowestFixed(s, e) ==
  /\ s.suggested_version \in FixedSet(e)
  /\ \A g \in FixedSet(e) : compareVersions(s.suggested_version, g) <= 0

\* C24: when the current version parses, there are fixed versions and none is
\* strictly greater than the current version, suggested_version is the highest
\* fixed version, never null, and the action is upgrade.
C24_FallbackHighest ==
  SuggestSucceeded =>
    \A i \in 1..Len(Suggestions) : \A e \in EntriesOf(Suggestions[i]) :
      parseVersion(CurrentOf(e)).ok /\ FixedSet(e) # {} /\ Greater(e) = {}
        => /\ HighestFixed(Suggestions[i], e)
           /\ Suggestions[i].suggested_version # NULL
           /\ Suggestions[i].action = "upgrade"

\* C25 as stated: when the current version does not parse or is absent,
\* suggested_version is the minimum of the fixed versions, and null only when
\* there are none.
C25_MinimumWhenUnparsable ==
  SuggestSucceeded =>
    \A i \in 1..Len(Suggestions) : \A e \in EntriesOf(Suggestions[i]) :
      ~parseVersion(CurrentOf(e)).ok
        => IF FixedSet(e) = {} THEN Suggestions[i].suggested_version = NULL
           ELSE LowestFixed(Suggestions[i], e)

\* C25 as amended: the same, for the fixed-version sets on which compareVersions
\* is transitive.
C25_MinimumWhenUnparsableAndTransitive ==
  SuggestSucceeded =>
    \A i \in 1..Len(Suggestions) : \A e \in EntriesOf(Suggestions[i]) :
      ~parseVersion(CurrentOf(e)).ok /\ TransitiveOn(FixedSet(e))
        => IF FixedSet(e) = {} THEN Suggestions[i].suggested_version = NULL
           ELSE LowestFixed(Suggestions[i], e)

\* C25 witness: no current version, fixed versions 2, 10, 1.1 in that order,
\* suggestion 1.1.
C25_Witness ==
  /\ SuggestSucceeded
  /\ Len(call.args.vuln_results) = 1
  /\ ~Has(call.args.vuln_results[1].dependency, "version")
  /\ Len(call.args.vuln_results[1].vulnerabilities) = 1
  /\ call.args.vuln_results[1].vulnerabilities[1].fixed_versions
       = <<<<"2">>, <<"1", "0">>, <<"1", ".", "1">>>>
  /\ Suggestions[1].suggested_version = <<"1", ".", "1">>

\* ------------------------------------------------- claims: the version of a block

\* The first version line in the block of the declaration at line i.
FirstVersionLine(i) ==
  CHOOSE j \in VersionLines :
    /\ j > i /\ \A k \in (i + 1)..j : k \notin Declarations /\ k \notin VersionLines \ {j}

Versioned == {d \in Declarations : BlockVersions(d) # {}}

\* C26: the version of the names of a block is the value of the first version
\* line of the block; later version lines of the block do not change it.
C26_FirstVersionLine ==
  YarnParsed
    => /\ \A d \in Versioned : \A n \in BlockNames(d) :
            <<n, VersionLine(Lines[FirstVersionLine(d)])>> \in Emitted
       /\ \A i \in 1..Len(Dependencies) :
            \E d \in Versioned :
              /\ Dependencies[i].name \in BlockNames(d)
              /\ Dependencies[i].version = VersionLine(Lines[FirstVersionLine(d)])

\* ------------------------------------------------------------- claims: the notes

UpgradeNote(s) ==
  [text |-> "Upgrade from {0} to {1}", args |-> <<s.current_version, s.suggested_version>>]

MajorNote == [text |-> "Warning: This is a major version upgrade", args |-> <<>>]

NoFixNote == [text |-> "No fixed version available", args |-> <<>>]

MajorBump(s) ==
  /\ parseVersion(s.current_version).ok /\ parseVersion(s.suggested_version).ok
  /\ parseVersion(s.suggested_version).major > parseVersion(s.current_version).major

\* The aliases of the vulnerabilities of e that start with CVE-.
CveAliases(e) ==
  {a \in UNION {Range(e.vulnerabilities[i].aliases) : i \in 1..Len(e.vulnerabilities)} :
     Len(a) >= 4 /\ SubSeq(a, 1, 4) = <<"C", "V", "E", "-">>}

\* The notes on the target, in order.
TargetNotes(s) ==
  IF s.suggested_version # NULL
    THEN <<UpgradeNote(s)>> \o (IF MajorBump(s) THEN <<MajorNote>> ELSE <<>>)
    ELSE <<NoFixNote>>

\* note lists each alias of cves once.
ListsOnce(note, cves) ==
  /\ note.text = "Related CVEs: {...}"
  /\ Range(note.args) = cves /\ Len(note.args) = Cardinality(cves)

\* C27: the notes of a suggestion are, in order: the upgrade note iff a target
\* was found; the major-version warning iff a target was found, both versions
\* parse and the suggested major is greater; the no-fix note iff no target was
\* found; one note of the related CVEs iff an alias starts with CVE-, with each
\* such alias once.
C27_NotesInOrder ==
  SuggestSucceeded =>
    \A i \in 1..Len(Suggestions) : \A e \in EntriesOf(Suggestions[i]) :
      LET s == Suggestions[i]
          n == Len(TargetNotes(s))
      IN  IF CveAliases(e) = {} THEN s.notes = TargetNotes(s)
          ELSE /\ Len(s.notes) = n + 1
               /\ SubSeq(s.notes, 1, n) = TargetNotes(s)
               /\ ListsOnce(s.notes[n + 1], CveAliases(e))

\* -------------------------------------------------------- claims: transitivity

\* a, b and c all parse, or none of them does.
Alike(c) ==
  \/ BothParse /\ parseVersion(c).ok
  \/ ~ParsedA.ok /\ ~ParsedB.ok /\ ~parseVersion(c).ok

\* C28 as stated: compareVersions is transitive over arbitrary strings: a <= b
\* and b <= c give a <= c.
C28_Transitive ==
  Compared =>
    \A c \in ComparePool :
      result.value <= 0 /\ compareVersions(call.args.b, c) <= 0
        => compareVersions(call.args.a, c) <= 0

\* C28 as amended: compareVersions is transitive over strings that all parse and
\* over strings none of which parses.
C28_TransitiveOnAlike ==
  Compared =>
    \A c \in ComparePool :
      Alike(c) /\ result.value <= 0 /\ compareVersions(call.args.b, c) <= 0
        => compareVersions(call.args.a, c) <= 0

\* C28 witness: 1-a < 1 and 1 < 1.1.
C28_Witness ==
  /\ Compared /\ call.args.a = <<"1", "-", "a">> /\ call.args.b = <<"1">>
  /\ result.value < 0
  /\ compareVersions(call.args.b, <<"1", ".", "1">>) < 0
  /\ compareVersions(call.args.a, <<"1", ".", "1">>) < 0

\* ------------------------------------------------ claims: names and versions

\* What stands for a copied value that is no string.
NotAString == {<<t>> : t \in {"number", "object", "array", "null", "undefined", "true", "false"}}

\* C29: every Dependency a parser emits has a name that is not empty and a
\* version that is a string and not empty.
C29_NameAndVersionNotEmpty ==
  Parsed7 =>
    \A i \in 1..Len(Dependencies) :
      /\ Dependencies[i].name # <<>> /\ Dependencies[i].name \notin NotAString
      /\ Dependencies[i].version # <<>> /\ Dependencies[i].version \notin NotAString

\* ------------------------------------------------------------- claims: sessions

InMap == Range(sessions)

\* C30: once stop() has resolved the map of sessions is empty, whatever the
\* interleaving of stop() with the requests in flight, and a session whose
\* transport has closed is not in the map.
C30_EmptyAfterStop ==
  /\ stopping.pc = "resolved" => sessions = <<>>
  /\ \A id \in SessionIds : transports[id].closed => id \notin InMap
====
